---- MODULE Spec2Model ----
(***************************************************************************)
(* A state-machine model of pycycle's chemical-equilibrium component       *)
(* (src/pycycle/cea/chem_eq.py, class ChemEq) together with the Newton     *)
(* driver that ChemEq.setup configures for it, of its static-flow         *)
(* components PsResid and PsCalc, and of the mass balance BleedCalcs of    *)
(* the bleed element, which are described further down.                    *)
(*                                                                         *)
(* Numbers.  The program computes in IEEE doubles; the model computes in   *)
(* integers on fixed-point grids.  Concentrations are multiples of a       *)
(* concentration quantum, residuals multiples of a residual quantum, and   *)
(* temperatures are in degrees.  The program's thresholds keep their ORDER *)
(* on these grids (0 < atol < res_ref*atol < 1e-4 < 1e-2 < 1.0, and        *)
(* MIN_VALID_CONCENTRATION < MIN_VALID_CONCENTRATION + 1e-20), but their   *)
(* ratios are compressed so that the state space is finite; so is the      *)
(* solver's iteration cap (100 in the program).  Norms are Euclidean and   *)
(* are compared through their squares.  np.log is modelled by the integer  *)
(* binary logarithm (monotone, 0 at 1, undefined at x <= 0).  The thermo   *)
(* object is an option the caller supplies; the model takes a small table. *)
(***************************************************************************)
EXTENDS Integers, Sequences, FiniteSets, TLC

----------------------------------------------------------------------------
(* Arithmetic helpers *)

Abs(x) == IF x < 0 THEN -x ELSE x

Sq(x) == x * x

Sgn(x) == IF x < 0 THEN -1 ELSE IF x = 0 THEN 0 ELSE 1

\* Floating division a / b on the residual grid: the sign is exact and a
\* nonzero quotient never rounds to zero (b # 0).
fdiv(a, b) == Sgn(a) * Sgn(b) * ((Abs(a) + Abs(b) - 1) \div Abs(b))

RECURSIVE Ln(_)
\* np.log on the grid, for x > 0.
Ln(x) == IF x <= 1 THEN 0 ELSE 1 + Ln(x \div 2)

RECURSIVE SumOver(_, _)
\* Sum of f[i] over the finite index set dom.
SumOver(f, dom) ==
  IF dom = {} THEN 0
  ELSE LET i == CHOOSE k \in dom : TRUE IN f[i] + SumOver(f, dom \ {i})

----------------------------------------------------------------------------
(* Program constants *)

\* pycycle.constants, values as quoted in chem_eq.py
P_REF == 1
R_UNIVERSAL_ENG == 2
MIN_VALID_CONCENTRATION == 2

\* the 1e-20 added to MIN_VALID_CONCENTRATION when the trace set is computed
TRACE_EPS == 1

\* lower bounds declared for the outputs n, n_moles and T
n_lower == 2
n_moles_lower == 2
T_lower == 1

\* res_ref of n and of T: the solver's norm divides these residuals by them
res_ref_n == 4
res_ref_T == 2

\* NewtonSolver options (maxiter on the model's scale; atol spans two
\* quanta of the residual grid, so a residual within tolerance can be nonzero)
maxiter == 2
atol == 2
\* rtol is 1e-10 = atol / 1.0: one over the grid value of 1.0
ONE_RES == 16
\* ArmijoGoldsteinLS maxiter
ls_maxiter == 2

\* thresholds of the residual norm: trace removal (1e-4), guess reset (1e-2)
TRACE_TOL == 9
RESET_TOL == 12

\* the temperature written by a guess reset, and setup's default temperature
T_RESET == 1000
T_DEFAULT == 400

\* ln(1e-5), the floor used by the logarithm guard
LN_FLOOR == -17

\* value 1.0 of the damping weight on the weight grid
WEIGHT_ONE == 2
\* argument from which the damping weight has saturated to 1.0
WEIGHT_SAT == 20

\* 1.0 on the concentration grid (n_init = 1 / num_prod / 10)
ONE_CONC == 80

\* 1.0 of the dimensionless chemical potential, and of a multiplier pi, on
\* the grid of resids_n
MU_UNIT == 3

----------------------------------------------------------------------------
(* ThermoData: a mixture of two product species over one element *)

num_prod == 2
num_element == 1
Species == 1..num_prod
Elements == 1..num_element

\* aij[e][j]: atoms of element e per mole of species j
aij == << <<1, 2>> >>

\* temperatures the thermodynamic fits cover
ThermoOK(Tv) == Tv >= 200 /\ Tv <= 6000

\* H0_j(T) and S0_j(T), dimensionless
H0(Tv) == IF Tv < 700 THEN <<1, -2>> ELSE <<2, -1>>
S0(Tv) == IF Tv < 700 THEN <<1, -1>> ELSE <<1, -2>>

\* derivatives of H0 and S0 with respect to T (thermo.H0_applyJ, S0_applyJ)
dH0_dT(Tv) == <<1, 1>>
dS0_dT(Tv) == <<0, 1>>

----------------------------------------------------------------------------
(* State of one ChemEq instance, its inputs, and the process-wide          *)
(* floating-point error mode                                               *)

VARIABLES
  mode,                  \* options['mode']: "T", "h" or "S"
  b0, P, target,         \* inputs: element moles, pressure, h or S
  T,                     \* input in mode T, output (state) otherwise
  n, pi, n_moles,        \* outputs
  resids,                \* the residual vector of the last evaluation
  remove_trace_species,  \* the trace-removal switch
  trace,                 \* self._trace, NoTrace until first computed
  weights,               \* self.weights, NoWeights until first computed
  H0_T, S0_T, sum_n_H0_T,\* caches of the last evaluation, None at setup
  np_err,                \* numpy's error mode: "warn" or "raise"
  jac,                   \* the partials written by the last linearize
  raised,                \* exception that ended the last call, or "none"
  pc, iter_count, ls_count, status,   \* the Newton driver
  norm0,                 \* the driver's norm0, kept as rtol_norm0
  entry,                 \* the outputs as the last direct call found them
  evals,                 \* record of the last two residual evaluations
  start                  \* where a Solve entered from a converged state began

\* State of one static-flow component (static_ps_resid.py, static_ps_calc.py)
VARIABLES
  ps_mode,               \* PsResid.options['mode'], or "calc" for a PsCalc
  pathname,              \* whether self.pathname holds 'mixer.Fl_I1_calc'
  inputs,                \* the component's inputs
  outputs,               \* the component's outputs
  ps_resids,             \* residuals written by the last apply_nonlinear
  ps_guess_cache,        \* self._ps_guess_cache
  ps_jac,                \* the partials J that linearize writes into
  ps_pc,                 \* the last call made on the component
  ps_raised              \* exception that ended that call, or "none"

flowV == <<ps_mode, pathname, inputs, outputs, ps_resids, ps_guess_cache,
           ps_jac, ps_pc, ps_raised>>

\* State of one BleedCalcs component (elements/bleed_out.py)
VARIABLES
  bleed_names,           \* options['bleed_names'], a list of distinct names
  bleed_inputs,          \* W_in and BN:frac_W of every bleed
  bleed_outputs,         \* W_out and BN:stat:W of every bleed
  bleed_pc               \* "setup", or "computed" after compute

bleedV == <<bleed_names, bleed_inputs, bleed_outputs, bleed_pc>>

\* Threads: numpy keeps the floating-point error mode set by np.seterr per
\* thread.  np_err is the mode of the running thread.
VARIABLES
  thread,           \* the thread that is running
  np_err_parked     \* the error mode of the thread that is not running

threadV == <<thread, np_err_parked>>

vars == <<mode, b0, P, target, T, n, pi, n_moles, resids,
          remove_trace_species, trace, weights, H0_T, S0_T, sum_n_H0_T,
          np_err, jac, raised,
          pc, iter_count, ls_count, norm0, status, entry, evals, start,
          ps_mode, pathname, inputs, outputs, ps_resids, ps_guess_cache,
          ps_jac, ps_pc, ps_raised,
          bleed_names, bleed_inputs, bleed_outputs, bleed_pc,
          thread, np_err_parked>>

inputsV == <<mode, b0, P, target>>
outputsV == <<T, n, pi, n_moles>>
instV == <<remove_trace_species, trace, weights, H0_T, S0_T, sum_n_H0_T>>
driverV == <<pc, iter_count, ls_count, norm0, status>>

\* attributes that have not been assigned yet: self._trace and self.weights
\* do not exist before the first evaluation; the caches are None
NoTrace == {0}
NoWeights == << >>
None == << >>
NoJac == [none |-> TRUE]
NoStart == [conv |-> FALSE]
NoEntry == [none |-> TRUE]

\* the outputs, as one point
Snapshot == [n |-> n, pi |-> pi, T |-> T, n_moles |-> n_moles]

\* initial guess for n: np.ones(num_prod) / num_prod / 10
n_init == [j \in Species |-> (ONE_CONC \div num_prod) \div 10]

ZeroResids ==
  [n |-> [j \in Species |-> 0], pi |-> [e \in Elements |-> 0],
   n_moles |-> 0, T |-> 0]

----------------------------------------------------------------------------
(* Residual model: ChemEq.apply_nonlinear                                  *)

\* the damping weight (1/(1+exp(-1e5 x)) - .5) * 2 on the weight grid:
\* odd, 0 at 0, saturating at 1.0
resid_weighting(x) ==
  IF x = 0 THEN 0
  ELSE IF Abs(x) < WEIGHT_SAT THEN Sgn(x) * (WEIGHT_ONE \div 2)
  ELSE Sgn(x) * WEIGHT_ONE

\* np.log raises under seterr(all='raise') for an argument <= 0
LogOK(x) == x > 0

\* mu with lnP standing for the pressure term
mu_of(nv, Tv, lnP) ==
  LET nm == SumOver(nv, Species) IN
  [j \in Species |-> H0(Tv)[j] - S0(Tv)[j] + Ln(nv[j]) + lnP - Ln(nm)]

\* variant: every species counts as a trace species
trace_all(nv) == Species

\* the species at or below the minimum concentration
trace_of(nv) == {j \in Species : nv[j] <= MIN_VALID_CONCENTRATION + TRACE_EPS}

\* variant: the switch is updated before the masking, so an evaluation masks
\* on its own residual norm
resids_n_eager(muv, nv, piv, flag) ==
  LET nm == SumOver(nv, Species)
      damped == [j \in Species |->
                   MU_UNIT * (muv[j]
                     - SumOver([e \in Elements |-> piv[e] * aij[e][j]], Elements))
                     * resid_weighting(nv[j] * nm)]
      small == SumOver([j \in Species |-> Sq(damped[j])], Species) < Sq(TRACE_TOL)
  IN [j \in Species |->
        IF (flag \/ small) /\ j \in trace_of(nv) THEN 0 ELSE damped[j]]

\* resids_n: Gibbs residual, damped, then masked when the switch is set
resids_n_of(muv, nv, piv, flag) ==
  LET nm == SumOver(nv, Species)
      w == [j \in Species |-> resid_weighting(nv[j] * nm)]
      raw == [j \in Species |->
                MU_UNIT * (muv[j]
                  - SumOver([e \in Elements |-> piv[e] * aij[e][j]], Elements))]
  IN [j \in Species |->
        IF flag /\ j \in trace_of(nv) THEN 0 ELSE raw[j] * w[j]]

\* variant: the mass balance leaves the trace species out
resids_pi_masked(nv, b0v) ==
  [e \in Elements |->
     SumOver([j \in Species |->
        IF j \in trace_of(nv) THEN 0 ELSE aij[e][j] * nv[j]], Species) - b0v[e]]

\* resids_pi: conservation of mass
resids_pi_of(nv, b0v) ==
  [e \in Elements |->
     SumOver([j \in Species |-> aij[e][j] * nv[j]], Species) - b0v[e]]

\* variant: n_moles is computed, its residual is always zero
resids_n_moles_zero(nm, nmv) == 0

\* resids_n_moles: the output equation for n_moles
resids_n_moles_of(nm, nmv) == nm - nmv

\* variant: the enthalpy closure without the factor T
resids_T_noT(md, nv, Tv, Pv, tg) ==
  LET nm == SumOver(nv, Species)
      sum_H == SumOver([j \in Species |-> nv[j] * H0(Tv)[j]], Species)
      sum_S == SumOver([j \in Species |->
                 nv[j] * (S0(Tv)[j] - Ln(nv[j]) + Ln(nm) - Ln(Pv \div P_REF))], Species)
  IN CASE md = "T" -> 0
       [] md = "h" -> fdiv((tg - sum_H * R_UNIVERSAL_ENG) * ONE_RES, tg)
       [] md = "S" -> fdiv((tg - R_UNIVERSAL_ENG * sum_S) * ONE_RES, tg)

\* resids_T, modes h and S (target # 0)
resids_T_of(md, nv, Tv, Pv, tg) ==
  LET nm == SumOver(nv, Species)
      sum_H == SumOver([j \in Species |-> nv[j] * H0(Tv)[j]], Species)
      sum_S == SumOver([j \in Species |->
                 nv[j] * (S0(Tv)[j] - Ln(nv[j]) + Ln(nm) - Ln(Pv \div P_REF))], Species)
  IN CASE md = "T" -> 0
       [] md = "h" -> fdiv((tg - sum_H * R_UNIVERSAL_ENG * Tv) * ONE_RES, tg)
       [] md = "S" -> fdiv((tg - R_UNIVERSAL_ENG * sum_S) * ONE_RES, tg)

\* squared Euclidean norm of resids['n']
NormSq_n(r) == SumOver([j \in Species |-> Sq(r.n[j])], Species)

\* squared Euclidean norm of the whole residual vector, unscaled
\* (resids.get_norm() as guess_nonlinear sees it)
NormSq(r) ==
  NormSq_n(r) + SumOver([e \in Elements |-> Sq(r.pi[e])], Elements)
    + Sq(r.n_moles) + Sq(r.T)

\* What one call of apply_nonlinear computes from the inputs, the outputs and
\* the switch it is entered with.  exc is the exception that ends the call.
apply_result(md, b0v, Pv, tg, Tv, nv, piv, nmv, flag) ==
  LET Ps == Pv \div P_REF
      nm == SumOver(nv, Species)
      logs_n == (\A j \in Species : LogOK(nv[j])) /\ LogOK(nm)
      first_ok == logs_n /\ LogOK(Ps)
      muv == IF first_ok THEN mu_of(nv, Tv, Ln(Ps)) ELSE mu_of(nv, Tv, LN_FLOOR)
      rn == resids_n_of(muv, nv, piv, flag)
      r == [n |-> rn, pi |-> resids_pi_of(nv, b0v), n_moles |-> resids_n_moles_of(nm, nmv),
            T |-> resids_T_of(md, nv, Tv, Pv, tg)]
  IN IF ~ThermoOK(Tv) THEN [exc |-> "NameError"]
     ELSE IF ~logs_n THEN [exc |-> "FloatingPointError"]
     ELSE [exc |-> "none",
           resids |-> r,
           weights |-> [j \in Species |-> resid_weighting(nv[j] * nm)],
           masked |-> flag,
           trace |-> trace_of(nv),
           sum_n_H0_T |-> SumOver([j \in Species |-> nv[j] * H0(Tv)[j]], Species),
           flag |-> (NormSq_n(r) < Sq(TRACE_TOL))]

\* the residual vector and the attributes of the instance, which an
\* evaluation reads and writes; exc is the exception that ended it
Inst ==
  [exc |-> "none", resids |-> resids, flag |-> remove_trace_species,
   trace |-> trace, weights |-> weights, H0_T |-> H0_T, S0_T |-> S0_T,
   sum_n_H0_T |-> sum_n_H0_T, np_err |-> np_err, evals |-> evals]

\* the instance st after an evaluation at the point pt whose outcome is out
after_apply(st, pt, out) ==
  IF out.exc = "NameError" THEN [st EXCEPT !.exc = "NameError"]
  ELSE IF out.exc = "FloatingPointError"
  THEN [st EXCEPT !.exc = "FloatingPointError", !.np_err = "raise",
                  !.H0_T = <<pt.T>>, !.S0_T = <<pt.T>>]
  ELSE [exc |-> "none",
        resids |-> out.resids,
        flag |-> out.flag,
        trace |-> IF out.masked THEN out.trace ELSE st.trace,
        weights |-> out.weights,
        H0_T |-> <<pt.T>>, S0_T |-> <<pt.T>>,
        sum_n_H0_T |-> IF mode = "h" THEN <<out.sum_n_H0_T>> ELSE st.sum_n_H0_T,
        np_err |-> "warn",
        evals |-> [count |-> IF st.evals.count < 2 THEN st.evals.count + 1 ELSE 2,
                   masked |-> out.masked,
                   prev_small |-> st.evals.small,
                   small |-> (NormSq_n(out.resids) < Sq(TRACE_TOL))]]

\* ChemEq.apply_nonlinear: the instance st after an evaluation at the point pt
apply_step(st, pt) ==
  CHOOSE after \in
    {after_apply(st, pt, out) :
       out \in {apply_result(mode, b0, P, target, pt.T, pt.n, pt.pi, pt.n_moles,
                             st.flag)}} : TRUE

\* the residual vector and the instance become st
SetInst(st) ==
  /\ raised' = st.exc
  /\ resids' = st.resids
  /\ remove_trace_species' = st.flag
  /\ trace' = st.trace
  /\ weights' = st.weights
  /\ H0_T' = st.H0_T /\ S0_T' = st.S0_T /\ sum_n_H0_T' = st.sum_n_H0_T
  /\ np_err' = st.np_err
  /\ evals' = st.evals

\* the outputs become the point pt
SetPoint(pt) == n' = pt.n /\ pi' = pt.pi /\ T' = pt.T /\ n_moles' = pt.n_moles

\* ChemEq.apply_nonlinear on the current state
apply_nonlinear == SetInst(apply_step(Inst, Snapshot))

----------------------------------------------------------------------------
(* Guess policy: ChemEq.guess_nonlinear                                    *)

\* variant: the guard without the test for a norm of exactly zero
guess_resets_nozero(r, nv) ==
  \/ NormSq(r) > Sq(RESET_TOL)
  \/ \E j \in Species : nv[j] < 0

\* variant: the guard always holds
guess_resets_always(r, nv) == TRUE

\* the guards of guess_nonlinear, on the residual vector r and the
\* concentrations nv
guess_resets(r, nv) ==
  \/ NormSq(r) > Sq(RESET_TOL)
  \/ NormSq(r) = 0
  \/ \E j \in Species : nv[j] < 0

\* variant: a reset also puts the multipliers back to their default
guess_point_clearing(r, pt) ==
  IF guess_resets(r, pt.n)
  THEN [pt EXCEPT !.n = n_init,
                  !.T = IF mode # "T" THEN T_RESET ELSE pt.T,
                  !.pi = [e \in Elements |-> 1]]
  ELSE pt

\* the outputs guess_nonlinear leaves, given r and the outputs pt
guess_point(r, pt) ==
  IF guess_resets(r, pt.n)
  THEN [pt EXCEPT !.n = n_init,
                  !.T = IF mode # "T" THEN T_RESET ELSE pt.T]
  ELSE pt

\* ChemEq.guess_nonlinear on the current state
guess_nonlinear == SetPoint(guess_point(resids, Snapshot))

----------------------------------------------------------------------------
(* Jacobian: ChemEq._calc_dRdy and ChemEq.linearize.  An entry is a        *)
(* fraction <<numerator, denominator>>; a zero denominator stands for the  *)
(* inf or nan that a division by zero leaves under the 'warn' error mode.  *)

Zero == <<0, 1>>
One == <<1, 1>>
IsZero(q) == q[1] = 0 /\ q[2] # 0
IsOne(q) == q[1] = q[2] /\ q[2] # 0

\* self._dRdy as _calc_dRdy leaves it: rows of n, of pi and (modes h, S) of T
calc_dRdy(md, Pv, tg, Tv, nv, w, flag, H0c, S0c, sumc) ==
  LET nm == SumOver(nv, Species)
      tiny(j) == flag /\ nv[j] <= MIN_VALID_CONCENTRATION
      dG == [j \in Species |-> dH0_dT(Tv)[j] - dS0_dT(Tv)[j]]
      sum_n_dH0 == SumOver([j \in Species |-> nv[j] * dH0_dT(Tv)[j]], Species)
      sum_n_dS0 == SumOver([j \in Species |-> nv[j] * dS0_dT(Tv)[j]], Species)
  IN [n_n |-> [j \in Species |-> [k \in Species |->
                 IF tiny(j) THEN (IF j = k THEN <<-1, 1>> ELSE Zero)
                 ELSE IF j = k THEN <<w[j] * (nm - nv[j]), WEIGHT_ONE * nv[j] * nm>>
                 ELSE <<-w[j], WEIGHT_ONE * nm>>]],
      n_pi |-> [j \in Species |-> [e \in Elements |->
                 IF tiny(j) THEN Zero ELSE <<-aij[e][j] * w[j], WEIGHT_ONE>>]],
      n_T |-> [j \in Species |->
                 IF md = "T" THEN Zero
                 ELSE IF tiny(j) THEN Zero ELSE <<dG[j] * w[j], WEIGHT_ONE>>],
      pi_n |-> [e \in Elements |-> [j \in Species |-> <<aij[e][j], 1>>]],
      T_n |-> [j \in Species |->
                 CASE md = "T" -> Zero
                   [] md = "h" -> <<-R_UNIVERSAL_ENG * Tv * H0(H0c[1])[j], tg>>
                   [] md = "S" ->
                        IF LogOK(nv[j]) /\ LogOK(nm)
                        THEN <<-R_UNIVERSAL_ENG * (S0(S0c[1])[j] - Ln(nv[j]) + Ln(nm)
                                                   - Ln(Pv \div P_REF)), tg>>
                        ELSE <<0, 0>>],
      T_T |-> CASE md = "T" -> Zero
                [] md = "h" -> <<-R_UNIVERSAL_ENG * (Tv * sum_n_dH0 + sumc[1]), tg>>
                [] md = "S" -> <<-R_UNIVERSAL_ENG * sum_n_dS0, tg>>]

\* the species linearize masks: self._trace when the switch is set
jac_mask(flag, tr) == IF flag THEN tr ELSE {}

\* The partials linearize assembles: the blocks of _dRdy, the input partials,
\* and the trace mask applied to the rows and columns of n.
linearize_J(md, Pv, tg, Tv, nv, w, flag, tr, H0c, S0c, sumc) ==
  LET d == calc_dRdy(md, Pv, tg, Tv, nv, w, flag, H0c, S0c, sumc)
      Ps == Pv \div P_REF
      dG == [j \in Species |-> dH0_dT(Tv)[j] - dS0_dT(Tv)[j]]
      mask == jac_mask(flag, tr)
      J_n_T == IF md # "T" THEN d.n_T
               ELSE [j \in Species |-> <<dG[j] * w[j], WEIGHT_ONE>>]
  IN [n_n |-> [j \in Species |-> [k \in Species |->
                 IF j \in mask /\ k \in mask /\ j = k THEN One
                 ELSE IF j \in mask \/ k \in mask THEN Zero
                 ELSE d.n_n[j][k]]],
      n_pi |-> [j \in Species |-> [e \in Elements |->
                 IF j \in mask THEN Zero ELSE d.n_pi[j][e]]],
      n_T |-> [j \in Species |-> IF j \in mask THEN Zero ELSE J_n_T[j]],
      n_P |-> [j \in Species |->
                 IF j \in mask THEN Zero ELSE <<w[j], WEIGHT_ONE * P_REF * Ps>>],
      pi_n |-> d.pi_n,
      pi_b0 |-> [e \in Elements |-> [f \in Elements |->
                 IF e = f THEN <<-1, 1>> ELSE Zero]],
      T_n |-> d.T_n,
      T_T |-> d.T_T,
      n_moles_n |-> [j \in Species |-> One],
      n_moles_n_moles |-> <<-1, 1>>]

\* linearize reads self.weights and, with the switch set, self._trace: an
\* attribute not assigned yet is an AttributeError
linearize_fails ==
  weights = NoWeights \/ (remove_trace_species /\ trace = NoTrace)

\* the partials linearize writes on the current state
linearize_now ==
  linearize_J(mode, P, target, T, n, weights, remove_trace_species, trace,
              H0_T, S0_T, sum_n_H0_T)

\* ChemEq.linearize on the current state
linearize ==
  IF linearize_fails
  THEN /\ raised' = "AttributeError"
       /\ UNCHANGED jac
  ELSE /\ raised' = "none"
       /\ jac' = linearize_now

----------------------------------------------------------------------------
(* Bounds of the model *)

\* largest concentration on the grid
NMax == 6
\* largest Newton update of one concentration
DMax == 2
\* largest magnitude of a Lagrange multiplier
PiMax == 1

\* temperatures on the grid and the Newton updates of T
TVals == {T_DEFAULT, T_RESET}
TSteps == {T_DEFAULT - T_RESET, 0, T_RESET - T_DEFAULT}

----------------------------------------------------------------------------
(* The Newton driver configured by ChemEq.setup: NewtonSolver with         *)
(* maxiter, atol, rtol, a dense DirectSolver and an ArmijoGoldsteinLS line  *)
(* search with scalar bound enforcement.  One action is one pass of the     *)
(* solver's code between two tests of its loop condition.                   *)

\* squared norm of the residual vector as the solver sees it (residuals of n
\* and T divided by their res_ref), times Sq(res_ref_n) * Sq(res_ref_T)
ScaledNormSq(r) ==
  Sq(res_ref_T) * NormSq_n(r)
  + Sq(res_ref_n) * Sq(res_ref_T)
      * (SumOver([e \in Elements |-> Sq(r.pi[e])], Elements) + Sq(r.n_moles))
  + Sq(res_ref_n) * Sq(r.T)

NormScale == Sq(res_ref_n) * Sq(res_ref_T)

\* The square of rtol * norm0 for the first residual vector r0 of a Solve,
\* rounded down on the grid (norm0 is 1.0 when the norm of r0 is 0): a norm
\* on the grid is above rtol * norm0 exactly when its square is above this.
rtol_norm0(r0) ==
  IF ScaledNormSq(r0) = 0
  THEN (Sq(atol) * NormScale * Sq(ONE_RES)) \div Sq(ONE_RES)
  ELSE (Sq(atol) * ScaledNormSq(r0)) \div Sq(ONE_RES)

\* norm > atol and norm / norm0 > rtol; tol0 is rtol_norm0 of the Solve
above_atol(r) == ScaledNormSq(r) > Sq(atol) * NormScale
above_rtol(r, tol0) == ScaledNormSq(r) > tol0
not_converged(r, tol0) == above_atol(r) /\ above_rtol(r, tol0)

\* variant: the loop condition without the iteration cap
loop_continues_nocap(i, r, tol0) == not_converged(r, tol0)

\* the loop condition of the solver
loop_continues(i, r, tol0) == i < maxiter /\ not_converged(r, tol0)

RECURSIVE EvalSeq(_, _, _)
\* Evaluations at the points pts[i], pts[i+1], ... one after the other, from
\* the instance st; the first exception ends them.  at is the index of the
\* last point evaluated.
EvalSeq(st, pts, i) ==
  CHOOSE run \in
    {IF after.exc # "none" \/ i = Len(pts)
     THEN [st |-> after, at |-> i]
     ELSE EvalSeq(after, pts, i + 1) : after \in {apply_step(st, pts[i])}} : TRUE

\* Solve is called: _guess_nonlinear (which, depending on the version of the
\* library, first brings the residuals up to date), then the first
\* evaluation, norm0 = norm (1.0 when the norm is 0)
Solve ==
  /\ UNCHANGED <<flowV, bleedV, threadV>>
  /\ pc = "idle"
  /\ \E pre \in BOOLEAN :
       \E s1 \in {IF pre THEN apply_step(Inst, Snapshot) ELSE Inst} :
       \E g \in {guess_point(s1.resids, Snapshot)} :
       \E s2 \in {IF s1.exc = "none" THEN apply_step(s1, g) ELSE s1} :
          /\ SetInst(s2)
          /\ SetPoint(IF s1.exc = "none" THEN g ELSE Snapshot)
          /\ start' = IF status = "converged"
                      THEN [conv |-> TRUE, atol |-> ~above_atol(resids),
                            guessed |-> s1.exc = "none",
                            norm |-> NormSq(s1.resids),
                            n |-> n, pi |-> pi, T |-> T, n_moles |-> n_moles]
                      ELSE NoStart
          /\ IF s2.exc = "none"
             THEN /\ pc' = "check" /\ status' = "running"
                  /\ norm0' = rtol_norm0(s2.resids)
             ELSE /\ pc' = "idle" /\ status' = "error"
                  /\ UNCHANGED norm0
  /\ iter_count' = 0 /\ ls_count' = 0
  /\ UNCHANGED <<inputsV, jac, entry>>

\* the loop ends: the solver reports convergence or, after a message, returns
\* without it
Return ==
  /\ UNCHANGED <<flowV, bleedV, threadV>>
  /\ pc = "check"
  /\ ~loop_continues(iter_count, resids, norm0)
  /\ pc' = "idle"
  /\ status' = IF not_converged(resids, norm0) THEN "failed" ELSE "converged"
  /\ UNCHANGED <<inputsV, outputsV, resids, instV, np_err, jac, raised,
                 iter_count, ls_count, norm0, entry, evals, start>>

\* The assembled matrix has a column of zeros: no unmasked row of n carries
\* the multiplier pi[e].  DirectSolver raises on a singular matrix.
singular(Jv) ==
  \E e \in Elements : \A j \in Species : IsZero(Jv.n_pi[j][e])

\* Row j of the n block is plus or minus the unit row: it fixes the update.
unit_row(Jv, j) ==
  /\ \A k \in Species \ {j} : IsZero(Jv.n_n[j][k])
  /\ \A e \in Elements : IsZero(Jv.n_pi[j][e])
  /\ mode = "T" \/ IsZero(Jv.n_T[j])
  /\ Jv.n_n[j][j] \in {One, <<-1, 1>>}

\* What a step dn leaves of the linear rows of J du = -R: the mass balance
\* (pi rows) and the unit rows.
defect(Jv, r, dn) ==
  SumOver([e \in Elements |->
     Abs(SumOver([j \in Species |-> Jv.pi_n[e][j][1] * dn[j]], Species) + r.pi[e])],
     Elements)
  + SumOver([j \in Species |->
       IF unit_row(Jv, j) THEN Abs(dn[j] * Jv.n_n[j][j][1] + r.n[j]) ELSE 0],
       Species)

\* DirectSolver: the solutions of J du = -R on the grid.  The linear rows of
\* J are solved exactly where the grid has an exact solution and to the
\* nearest grid point otherwise; the n_moles row is always exact.  The
\* remaining rows are nonlinear in the state and leave du free.
directions(Jv, r) ==
  LET Cand == {dn \in [Species -> -DMax..DMax] :
                 \A j \in Species : n[j] + dn[j] <= NMax}
      DN == {dn \in Cand :
               \A other \in Cand : defect(Jv, r, dn) <= defect(Jv, r, other)}
      DP == {dp \in [Elements -> -1..1] :
               \A e \in Elements : pi[e] + dp[e] \in -PiMax..PiMax}
      DT == IF mode = "T" THEN {0} ELSE {dT \in TSteps : T + dT \in TVals}
  IN {[n |-> x[1], pi |-> x[2], T |-> x[3],
       n_moles |-> SumOver(x[1], Species) + r.n_moles] : x \in DN \X DP \X DT}

\* a step scaled by alpha = 1 / 2^k on the grid, rounded toward the start
scaled(d, k) == Sgn(d) * (Abs(d) \div (2 ^ k))
scaled_T(d, k) == IF k = 0 THEN d ELSE 0

\* variant: no bound enforcement
enforce_off(v, lo) == v

\* bound_enforcement = 'scalar': each bounded output is moved back to its
\* bound on its own
enforce(v, lo) == IF v < lo THEN lo ELSE v

\* the point after the full step d from pt, bounds enforced
full_step(pt, d) ==
  [n |-> [j \in Species |-> enforce(pt.n[j] + d.n[j], n_lower)],
   pi |-> [e \in Elements |-> pt.pi[e] + d.pi[e]],
   T |-> IF mode = "T" THEN pt.T ELSE enforce(pt.T + d.T, T_lower),
   n_moles |-> enforce(pt.n_moles + d.n_moles, n_moles_lower)]

\* The point of the k-th backtracking step between pt and the full step x1.
\* The step is one multiple alpha of x1 - pt, so the gap between the sum of
\* n and n_moles moves from its value at pt toward its value at x1 by alpha;
\* n_moles is placed on the grid so that the rounding of n keeps this.
backtracked(pt, x1, k) ==
  LET nb == [j \in Species |-> pt.n[j] + scaled(x1.n[j] - pt.n[j], k)]
      gap0 == SumOver(pt.n, Species) - pt.n_moles
      gap1 == SumOver(x1.n, Species) - x1.n_moles
  IN [n |-> nb,
      pi |-> [e \in Elements |-> pt.pi[e] + scaled(x1.pi[e] - pt.pi[e], k)],
      T |-> pt.T + scaled_T(x1.T - pt.T, k),
      n_moles |-> SumOver(nb, Species) - (gap0 + scaled(gap1 - gap0, k))]

\* The points one Newton iteration evaluates, for the step d and k
\* backtracking steps: the line search evaluates the start point, the full
\* step and each backtracking step, and the solver evaluates the last point
\* once more.
iteration_points(pt, d, k) ==
  LET x1 == full_step(pt, d)
      trial == <<pt, x1>> \o [i \in 1..k |-> backtracked(pt, x1, i)]
  IN trial \o <<trial[Len(trial)]>>

\* One Newton iteration: linearize, the linear solve, the line search with
\* up to ls_maxiter backtracking steps (its Armijo-Goldstein test passes or
\* fails after each trial), and the evaluation that follows.  An exception
\* leaves the outputs at the point where it was raised and ends Solve.
Iterate ==
  /\ UNCHANGED <<flowV, bleedV, threadV>>
  /\ pc = "check"
  /\ loop_continues(iter_count, resids, norm0)
  /\ IF linearize_fails
     THEN /\ raised' = "AttributeError"
          /\ pc' = "idle" /\ status' = "error"
          /\ UNCHANGED <<outputsV, resids, instV, np_err, jac, evals,
                         iter_count, ls_count>>
     ELSE \E J \in {linearize_now} :
          /\ jac' = J
          /\ IF singular(J)
             THEN /\ raised' = "RuntimeError"
                  /\ pc' = "idle" /\ status' = "error"
                  /\ UNCHANGED <<outputsV, resids, instV, np_err, evals,
                                 iter_count, ls_count>>
             ELSE \E d \in directions(J, resids), k \in 0..ls_maxiter :
                  \E pts \in {iteration_points(Snapshot, d, k)} :
                  \E run \in {EvalSeq(Inst, pts, 1)} :
                       /\ SetInst(run.st)
                       /\ SetPoint(pts[run.at])
                       /\ ls_count' = k
                       /\ IF run.st.exc = "none"
                          THEN /\ pc' = "check" /\ status' = "running"
                               /\ iter_count' = iter_count + 1
                          ELSE /\ pc' = "idle" /\ status' = "error"
                               /\ UNCHANGED iter_count
  /\ UNCHANGED <<inputsV, norm0, entry, start>>

----------------------------------------------------------------------------
(* Static flow: src/pycycle/cea/static_ps_resid.py (class PsResid) and     *)
(* src/pycycle/cea/static_ps_calc.py (class PsCalc).                       *)
(*                                                                         *)
(* Numbers.  The static-flow code divides, takes square roots and lets     *)
(* IEEE infinities and NaNs through, so its values are modelled as         *)
(* extended rationals <<num, den>> in lowest terms with den >= 0:          *)
(* den > 0 is the finite number num/den, <<1, 0>> is +inf, <<-1, 0>> is    *)
(* -inf and <<0, 0>> is NaN.  Signed zeros are not distinguished.  Square  *)
(* roots are exact: the input grids make every radicand a perfect square.  *)
(* The program's thresholds keep their order (0 < 1e-16 < .5, and          *)
(* 1e-4 < .001 < 3. < 5e4) with compressed ratios.                         *)

RECURSIVE GCD(_, _)
GCD(a, b) == IF b = 0 THEN a ELSE GCD(b, a % b)

\* the extended rational num/den in lowest terms
Frac(num, den) ==
  IF den = 0 THEN <<Sgn(num), 0>>
  ELSE LET g == GCD(Abs(num), Abs(den))
       IN <<(Sgn(den) * num) \div g, Abs(den) \div g>>

FInt(k) == <<k, 1>>
FZero == <<0, 1>>
FOne == <<1, 1>>
FInf == <<1, 0>>
FNaN == <<0, 0>>

IsNaN(a) == a = FNaN
IsInf(a) == a[2] = 0 /\ a[1] # 0
IsFinite(a) == a[2] > 0

FNeg(a) == <<-a[1], a[2]>>
FAbs(a) == <<Abs(a[1]), a[2]>>

FMul(a, b) ==
  IF IsNaN(a) \/ IsNaN(b) THEN FNaN ELSE Frac(a[1] * b[1], a[2] * b[2])

FDiv(a, b) ==
  IF IsNaN(a) \/ IsNaN(b) THEN FNaN
  ELSE IF b = FZero THEN Frac(a[1], 0)
  ELSE FMul(a, Frac(Sgn(b[1]) * b[2], Abs(b[1])))

FAdd(a, b) ==
  IF IsNaN(a) \/ IsNaN(b) THEN FNaN
  ELSE IF IsInf(a) /\ IsInf(b) THEN (IF a = b THEN a ELSE FNaN)
  ELSE Frac(a[1] * b[2] + b[1] * a[2], a[2] * b[2])

FSub(a, b) == FAdd(a, FNeg(b))

\* a < b as IEEE compares: false whenever a NaN is involved
FLess(a, b) ==
  /\ ~IsNaN(a) /\ ~IsNaN(b)
  /\ IF IsInf(a) /\ IsInf(b) THEN a[1] < b[1]
     ELSE a[1] * b[2] < b[1] * a[2]

FGeq(a, b) == ~IsNaN(a) /\ ~IsNaN(b) /\ ~FLess(a, b)

ISqrt(k) == CHOOSE r \in 0..k : r * r = k

\* x ** 0.5 and np.sqrt(x): NaN for a negative x
FSqrt(a) ==
  IF IsNaN(a) \/ a[1] < 0 THEN FNaN
  ELSE IF IsInf(a) THEN a
  ELSE <<ISqrt(a[1]), ISqrt(a[2])>>

RECURSIVE FPowNat(_, _)
FPowNat(a, k) == IF k = 0 THEN FOne ELSE FMul(a, FPowNat(a, k - 1))

\* a ** e for an exponent e that is a whole number
FPow(a, e) ==
  IF e[1] >= 0 THEN FPowNat(a, e[1] \div e[2])
  ELSE FDiv(FOne, FPowNat(a, (-e[1]) \div e[2]))

\* The operations on which numpy signals a floating-point error: it returns
\* the NaN or infinity in the 'warn' mode and raises FloatingPointError in
\* the 'raise' mode.
sqrt_invalid(a) == ~IsNaN(a) /\ a[1] < 0
mul_invalid(a, b) == (a = FZero /\ IsInf(b)) \/ (IsInf(a) /\ b = FZero)
div_error(a, b) == (IsFinite(a) /\ b = FZero) \/ (IsInf(a) /\ IsInf(b))

\* constants and declared values of the static-flow components
R_UNIVERSAL_SI == 2
Ps_lower == <<1, 8>>
Ps_upper == FInt(8)
Ps_val == <<1, 2>>
V_val == FInt(1)
Vsonic_val == FInt(3)
area_val == FOne
area_lower == <<1, 8>>
MN_val == <<1, 2>>
NO_GUESS == FInt(-1)
GUESS_TOL == <<1, 1000>>
MIXER_PS == FInt(3)
MN_MIN == <<1, 2>>
MN_DEFAULT == FInt(5)
calc_val == FOne

\* the grids the inputs are drawn from
TsVals == {FInt(-1), FZero, FOne, FInt(4)}
WVals == {FZero, FInt(2)}
rhoVals == {FZero, FOne}
MNVals == {FZero, <<1, 4>>, <<1, 2>>, FOne, FInt(2)}
areaVals == {FInf, FZero, FOne, FInt(2)}
guessMNVals == {FZero, FOne, FInt(2)}
PtVals == {<<1, 8>>, FOne, FInt(16)}
gamtVals == {FInt(2)}
htVals == {FInt(8)}
hsVals == {FZero, FInt(8)}
calc_hVals == {FZero, FInt(8)}

ZeroFlowResids(md) ==
  IF md = "MN"
  THEN [Ps |-> FZero, V |-> FZero, Vsonic |-> FZero, area |-> FZero]
  ELSE [Ps |-> FZero, V |-> FZero, Vsonic |-> FZero, MN |-> FZero]

\* the partials of the area and V residuals that linearize writes in MN
\* mode only for MN >= 1e-16, at the zeros they are declared with
\* the partials a component declares, at the values they hold before the
\* first linearize: zero, and -1 for the partial of V declared with a value
DeclaredPartials(md) ==
  IF md = "MN"
  THEN [Ps_ht |-> FZero, Ps_hs |-> FZero,
        Vsonic_gamma |-> FZero, Vsonic_n_moles |-> FZero,
        Vsonic_Ts |-> FZero, Vsonic_Vsonic |-> FZero, V_V |-> FInt(-1),
        area_area |-> FZero, area_W |-> FZero, area_rho |-> FZero,
        area_gamma |-> FZero, area_n_moles |-> FZero, area_Ts |-> FZero,
        area_MN |-> FZero,
        Ps_MN |-> FZero, Ps_n_moles |-> FZero, Ps_gamma |-> FZero,
        Ps_Ts |-> FZero,
        V_MN |-> FZero, V_n_moles |-> FZero, V_gamma |-> FZero,
        V_Ts |-> FZero]
  ELSE [Ps_ht |-> FZero, Ps_hs |-> FZero,
        Vsonic_gamma |-> FZero, Vsonic_n_moles |-> FZero,
        Vsonic_Ts |-> FZero, Vsonic_Vsonic |-> FZero, V_V |-> FInt(-1),
        MN_MN |-> FZero, MN_area |-> FZero, MN_Ts |-> FZero,
        MN_n_moles |-> FZero, MN_W |-> FZero, MN_gamma |-> FZero,
        MN_rho |-> FZero,
        Ps_area |-> FZero, Ps_Ts |-> FZero, Ps_n_moles |-> FZero,
        Ps_W |-> FZero, Ps_gamma |-> FZero, Ps_rho |-> FZero,
        V_area |-> FZero, V_Ts |-> FZero, V_n_moles |-> FZero,
        V_W |-> FZero, V_gamma |-> FZero, V_rho |-> FZero]

\* one thread, with the thread that does not run in numpy's default mode
ThreadSetup == thread = 1 /\ np_err_parked = "warn"

BleedSetup ==
  /\ bleed_names = <<>>
  /\ bleed_inputs = [W_in |-> FInt(30), frac_W |-> <<>>]
  /\ bleed_outputs = [W_out |-> FOne, stat_W |-> <<>>]
  /\ bleed_pc = "setup"

\* the static-flow component before it is set up: the state the
\* equilibrium specifications keep it in
FlowSetup ==
  /\ ps_mode = "MN"
  /\ pathname = FALSE
  /\ inputs = [Ts |-> FOne, ht |-> FInt(8), hs |-> FInt(8), n_moles |-> FOne,
               gamma |-> FInt(2), W |-> FInt(2), rho |-> FOne,
               gamt |-> FInt(2), Pt |-> FOne, MN |-> MN_val]
  /\ outputs = [Ps |-> Ps_val, V |-> V_val, Vsonic |-> Vsonic_val,
                area |-> area_val]
  /\ ps_resids = ZeroFlowResids("MN")
  /\ ps_guess_cache = NO_GUESS
  /\ ps_jac = DeclaredPartials(ps_mode)
  /\ ps_pc = "setup"
  /\ ps_raised = "none"

----------------------------------------------------------------------------
\* the state of an instance after setup
SetupState ==
  /\ n = n_init
  /\ pi = [e \in Elements |-> 1]
  /\ n_moles = 3
  /\ T = T_DEFAULT
  /\ resids = ZeroResids
  /\ remove_trace_species = FALSE
  /\ trace = NoTrace
  /\ weights = NoWeights
  /\ H0_T = None /\ S0_T = None /\ sum_n_H0_T = None
  /\ np_err = "warn"
  /\ jac = NoJac
  /\ raised = "none"
  /\ pc = "idle" /\ iter_count = 0 /\ ls_count = 0 /\ norm0 = 0
  /\ status = "none" /\ entry = NoEntry
  /\ evals = [count |-> 0, masked |-> FALSE, prev_small |-> FALSE, small |-> FALSE]
  /\ start = NoStart

\* element abundances, pressures and targets a model is set up with; the
\* solved model runs at a pressure above P_REF, the direct calls below at
\* P_REF too
B0Vals == {<<8>>}
PVals == {2}
CallPVals == {1, 2}
\* temperatures a direct call may find: setup's default, the restart value,
\* and the lower bound of T, which the thermodynamic fits do not cover
CallTVals == {T_lower, T_DEFAULT, T_RESET}
TargetVals(md) == CASE md = "T" -> {0} [] md = "h" -> {12000} [] md = "S" -> {8}

Init ==
  /\ FlowSetup
  /\ BleedSetup
  /\ ThreadSetup
  /\ mode \in {"T", "h", "S"}
  /\ b0 \in B0Vals
  /\ P \in PVals
  /\ target \in TargetVals(mode)
  /\ SetupState

Next == Solve \/ Iterate \/ Return

Spec == Init /\ [][Next]_vars

\* Every step inside a Solve call lowers Rank.
Rank == IF pc = "idle" THEN 0 ELSE maxiter - iter_count + 1

----------------------------------------------------------------------------
(* Direct calls of the component's methods, as a caller or a test makes    *)
(* them on an instance after setup: the outputs and the residual vector    *)
(* hold whatever was written to them before the call.                      *)

\* largest magnitude of a Lagrange multiplier written by a caller
PiCall == 3

\* concentrations a caller may have written: negative, zero or on the grid
CallNVals == {-1, 0} \cup (n_lower..NMax)

\* residual vectors left by an earlier evaluation: zero, small, at the reset
\* threshold, above it
CallResids ==
  {[ZeroResids EXCEPT !.pi = [e \in Elements |-> v]] : v \in {0, 1, RESET_TOL, RESET_TOL + 1}}

CallPcs == {"ready", "guessed", "applied", "linearized"}

InitCalls ==
  /\ FlowSetup
  /\ BleedSetup
  /\ ThreadSetup
  /\ mode \in {"T", "h", "S"}
  /\ b0 \in B0Vals
  /\ P \in CallPVals
  /\ target \in TargetVals(mode)
  /\ n \in [Species -> CallNVals]
  /\ pi \in [Elements -> -PiCall..PiCall]
  /\ n_moles = 3
  /\ T \in CallTVals
  /\ resids \in CallResids
  /\ remove_trace_species = FALSE
  /\ trace = NoTrace
  /\ weights = NoWeights
  /\ H0_T = None /\ S0_T = None /\ sum_n_H0_T = None
  /\ np_err = "warn"
  /\ jac = NoJac
  /\ raised = "none"
  /\ pc = "ready" /\ iter_count = 0 /\ ls_count = 0 /\ norm0 = 0
  /\ status = "none" /\ entry = NoEntry
  /\ evals = [count |-> 0, masked |-> FALSE, prev_small |-> FALSE, small |-> FALSE]
  /\ start = NoStart

CallGuess ==
  /\ UNCHANGED <<flowV, bleedV, threadV>>
  /\ pc \in CallPcs
  /\ entry' = Snapshot
  /\ guess_nonlinear
  /\ pc' = "guessed"
  /\ raised' = "none"
  /\ UNCHANGED <<inputsV, resids, instV, np_err, jac, iter_count, ls_count,
                 norm0, status, evals, start>>

CallApply ==
  /\ UNCHANGED <<flowV, bleedV, threadV>>
  /\ pc \in CallPcs
  /\ entry' = Snapshot
  /\ apply_nonlinear
  /\ pc' = "applied"
  /\ UNCHANGED <<inputsV, outputsV, jac, iter_count, ls_count, norm0,
                 status, start>>

CallLinearize ==
  /\ UNCHANGED <<flowV, bleedV, threadV>>
  /\ pc \in CallPcs
  /\ entry' = Snapshot
  /\ linearize
  /\ pc' = "linearized"
  /\ UNCHANGED <<inputsV, outputsV, resids, instV, np_err, iter_count,
                 ls_count, norm0, status, evals, start>>

NextCalls == CallGuess \/ CallApply \/ CallLinearize

SpecCalls == InitCalls /\ [][NextCalls]_vars

----------------------------------------------------------------------------
(* The static-flow components *)

chemV == <<inputsV, outputsV, resids, instV, jac, raised, driverV, entry,
           evals, start>>

\* gamma * R_UNIVERSAL_SI * n_moles * Ts, the radicand of Vsonic
VsonicArg(i) ==
  FMul(FMul(FMul(i.gamma, FInt(R_UNIVERSAL_SI)), i.n_moles), i.Ts)

\* variant: no guard on the Mach number, the area is always the quotient
compute_outputs_MN_unguarded(i, e) ==
  LET x == VsonicArg(i)
      Vs == FSqrt(x)
  IN IF sqrt_invalid(x) /\ e = "raise"
     THEN [exc |-> "FloatingPointError", np_err |-> e, Vsonic |-> FNaN,
           V |-> FNaN, area |-> FNaN, divided |-> FALSE]
     ELSE [exc |-> "none", np_err |-> "warn", Vsonic |-> Vs,
           V |-> FMul(i.MN, Vs),
           area |-> FDiv(i.W, FMul(FMul(i.rho, Vs), i.MN)),
           divided |-> TRUE]

\* PsResid._compute_outputs_MN under the error mode e the caller left.  The
\* first evaluation of Vsonic is outside the try block and raises in the
\* 'raise' mode; the guarded one only prints, so a NaN Vsonic is kept.
\* The division is evaluated in the 'warn' mode.
compute_outputs_MN(i, e) ==
  LET x == VsonicArg(i)
      Vs == FSqrt(x)
      low == FLess(i.MN, MN_MIN)
      den == FMul(FMul(i.rho, Vs), i.MN)
  IN IF sqrt_invalid(x) /\ e = "raise"
     THEN [exc |-> "FloatingPointError", np_err |-> e, Vsonic |-> FNaN,
           V |-> FNaN, area |-> FNaN, divided |-> FALSE]
     ELSE [exc |-> "none", np_err |-> "warn", Vsonic |-> Vs,
           V |-> FMul(i.MN, Vs),
           area |-> IF low THEN FInf ELSE FDiv(i.W, den),
           divided |-> ~low]

\* whether W/(rho*Vsonic*area) signals a floating-point error
MN_error(i) ==
  LET rv == FMul(i.rho, FSqrt(VsonicArg(i)))
  IN \/ mul_invalid(i.rho, FSqrt(VsonicArg(i)))
     \/ mul_invalid(rv, i.area)
     \/ div_error(i.W, FMul(rv, i.area))

\* PsResid._compute_outputs_area: Vsonic as above; MN is 0 for an infinite
\* area, and 5 when the guarded division signals an error.
compute_outputs_area(i, e) ==
  LET x == VsonicArg(i)
      Vs == FSqrt(x)
      den == FMul(FMul(i.rho, Vs), i.area)
      err == MN_error(i)
      MNc == IF i.area = FInf THEN FZero
             ELSE IF err THEN MN_DEFAULT ELSE FDiv(i.W, den)
  IN IF sqrt_invalid(x) /\ e = "raise"
     THEN [exc |-> "FloatingPointError", np_err |-> e, Vsonic |-> FNaN,
           V |-> FNaN, MN |-> FNaN, defaulted |-> FALSE]
     ELSE [exc |-> "none",
           np_err |-> IF i.area = FInf THEN e ELSE "warn",
           Vsonic |-> Vs, V |-> FMul(MNc, Vs), MN |-> MNc,
           defaulted |-> i.area # FInf /\ err]

\* the isentropic estimate of the static pressure
ps_isentropic(Pt, gamt, M) ==
  FMul(Pt, FPow(FAdd(FOne, FMul(FDiv(FSub(gamt, FOne), FInt(2)), FMul(M, M))),
                FDiv(FNeg(gamt), FSub(gamt, FOne))))

\* whether the second equation handed to fsolve signals an error:
\* (R*Ts)**0.5 of a negative Ts, or a division by a zero area
equations_error(i) == FLess(i.Ts, FZero) \/ i.area = FZero

\* the ps that fsolve returns: both equations are linear with unit slope and
\* the first has its root at the estimate the closure captured; with a NaN
\* or infinite second equation the returned point is the start or NaN
fsolve_ps(i) ==
  LET ps0 == ps_isentropic(i.Pt, i.gamt, i.guessMN)
  IN IF equations_error(i) THEN {ps0, FNaN} ELSE {ps0}

guess_differs(ps_guess) == FLess(GUESS_TOL, FAbs(FSub(ps_guess, ps_guess_cache)))

\* variant: MN mode writes whenever the fresh guess differs from the cache
seeds_MN_always(ps_guess) == guess_differs(ps_guess)

\* MN mode writes Ps and the cache only while the cache holds its initial -1
seeds_MN(ps_guess) == guess_differs(ps_guess) /\ ps_guess_cache = NO_GUESS

\* PsResid.guess_nonlinear
PsResid_guess_nonlinear ==
  /\ ps_mode \in {"MN", "area"}
  /\ IF ps_mode = "MN"
     THEN \E ps_guess \in {ps_isentropic(inputs.Pt, inputs.gamt, inputs.MN)} :
            /\ IF seeds_MN(ps_guess)
               THEN /\ outputs' = [outputs EXCEPT !.Ps = ps_guess]
                    /\ ps_guess_cache' = ps_guess
               ELSE UNCHANGED <<outputs, ps_guess_cache>>
            /\ ps_raised' = "none"
     ELSE IF equations_error(inputs) /\ np_err = "raise"
          THEN /\ ps_raised' = "FloatingPointError"
               /\ UNCHANGED <<outputs, ps_guess_cache>>
          ELSE \E ps_guess \in fsolve_ps(inputs) :
                 /\ IF guess_differs(ps_guess)
                    THEN /\ outputs' = [outputs EXCEPT
                                          !.Ps = IF pathname THEN MIXER_PS
                                                 ELSE ps_guess]
                         /\ ps_guess_cache' = ps_guess
                    ELSE UNCHANGED <<outputs, ps_guess_cache>>
                 /\ ps_raised' = "none"
  /\ ps_pc' = "guessed"
  /\ UNCHANGED <<ps_mode, pathname, inputs, ps_resids, np_err, ps_jac, chemV,
                 bleedV, threadV>>

compute_outputs(md, i, e) ==
  IF md = "MN" THEN compute_outputs_MN(i, e) ELSE compute_outputs_area(i, e)

\* PsResid.solve_nonlinear
PsResid_solve_nonlinear ==
  /\ ps_mode \in {"MN", "area"}
  /\ \E r \in {compute_outputs(ps_mode, inputs, np_err)} :
       /\ np_err' = r.np_err
       /\ IF r.exc = "FloatingPointError"
          THEN /\ ps_raised' = "AnalysisError"
               /\ UNCHANGED outputs
          ELSE /\ ps_raised' = "none"
               /\ outputs' = IF ps_mode = "MN"
                             THEN [outputs EXCEPT !.V = r.V,
                                     !.Vsonic = r.Vsonic, !.area = r.area]
                             ELSE [outputs EXCEPT !.V = r.V,
                                     !.Vsonic = r.Vsonic, !.MN = r.MN]
  /\ ps_pc' = "solved"
  /\ UNCHANGED <<ps_mode, pathname, inputs, ps_resids, ps_guess_cache, ps_jac, chemV,
                 bleedV, threadV>>

\* the static-pressure residual (ht_calc - ht)/ht
res_Ps_of(i, MN) ==
  LET RT_q_MW == FMul(FMul(FInt(R_UNIVERSAL_SI), i.Ts), i.n_moles)
      MN_squared_q2 == FDiv(FMul(MN, MN), FInt(2))
      ht_calc == FAdd(i.hs, FMul(FMul(MN_squared_q2, i.gamma), RT_q_MW))
  IN FDiv(FSub(ht_calc, i.ht), i.ht)

\* the area residual of MN mode
res_area_of(area, outs_area) ==
  IF area # FInf THEN FSub(area, outs_area) ELSE FZero

\* PsResid.apply_nonlinear
PsResid_apply_nonlinear ==
  /\ ps_mode \in {"MN", "area"}
  /\ \E r \in {compute_outputs(ps_mode, inputs, np_err)} :
       /\ np_err' = r.np_err
       /\ ps_raised' = r.exc
       /\ IF r.exc # "none"
          THEN UNCHANGED ps_resids
          ELSE ps_resids' =
                 IF ps_mode = "MN"
                 THEN [Ps |-> res_Ps_of(inputs, inputs.MN),
                       V |-> FSub(r.V, outputs.V),
                       Vsonic |-> FSub(r.Vsonic, outputs.Vsonic),
                       area |-> res_area_of(r.area, outputs.area)]
                 ELSE [Ps |-> res_Ps_of(inputs, r.MN),
                       V |-> FSub(r.V, outputs.V),
                       Vsonic |-> FSub(r.Vsonic, outputs.Vsonic),
                       MN |-> FSub(r.MN, outputs.MN)]
  /\ ps_pc' = "applied"
  /\ UNCHANGED <<ps_mode, pathname, inputs, outputs, ps_guess_cache, ps_jac, chemV,
                 bleedV, threadV>>

\* steps of Ps that the enclosing solver may propose
PsSteps == {FInt(-16), FInt(-4), FInt(16)}

\* the line search keeps an updated Ps within its declared bounds
enforce_Ps(x) ==
  IF FLess(x, Ps_lower) THEN Ps_lower
  ELSE IF FLess(Ps_upper, x) THEN Ps_upper ELSE x

\* an update of the Ps state by the enclosing Newton solver
bounded_update ==
  /\ ps_mode \in {"MN", "area"}
  /\ \E d \in PsSteps :
       outputs' = [outputs EXCEPT !.Ps = enforce_Ps(FAdd(@, d))]
  /\ ps_pc' = "updated"
  /\ ps_raised' = "none"
  /\ UNCHANGED <<ps_mode, pathname, inputs, ps_resids, ps_guess_cache,
                 np_err, ps_jac, chemV,
                 bleedV, threadV>>

\* PsCalc.compute under the error mode e: every operation is unguarded
calc_outputs(i, e) ==
  LET x == VsonicArg(i)
      Vsonic == FSqrt(x)
      V == IF FGeq(i.ht, i.hs)
           THEN FSqrt(FMul(FInt(2), FSub(i.ht, i.hs)))
           ELSE FSqrt(FMul(FInt(2), FSub(i.hs, i.ht)))
      rV == FMul(i.rho, V)
      err == sqrt_invalid(x) \/ div_error(V, Vsonic) \/ div_error(i.W, rV)
  IN IF err /\ e = "raise"
     THEN [exc |-> "FloatingPointError", MN |-> FNaN, V |-> FNaN,
           Vsonic |-> FNaN, area |-> FNaN]
     ELSE [exc |-> "none", MN |-> FDiv(V, Vsonic), V |-> V,
           Vsonic |-> Vsonic, area |-> FDiv(i.W, rV)]

\* PsCalc.compute
PsCalc_compute ==
  /\ ps_mode = "calc"
  /\ \E r \in {calc_outputs(inputs, np_err)} :
       /\ ps_raised' = r.exc
       /\ IF r.exc # "none"
          THEN UNCHANGED outputs
          ELSE outputs' = [MN |-> r.MN, V |-> r.V, Vsonic |-> r.Vsonic,
                           area |-> r.area]
  /\ ps_pc' = "computed"
  /\ UNCHANGED <<ps_mode, pathname, inputs, ps_resids, ps_guess_cache,
                 np_err, ps_jac, chemV,
                 bleedV, threadV>>

\* inputs of the three components
FlowInputs(md) ==
  CASE md = "MN" ->
         [Ts : TsVals, ht : htVals, hs : hsVals, n_moles : {FOne},
          gamma : {FInt(2)}, W : WVals, rho : rhoVals, gamt : gamtVals,
          Pt : PtVals, MN : MNVals]
    [] md = "area" ->
         [Ts : TsVals, ht : htVals, hs : hsVals, n_moles : {FOne},
          gamma : {FInt(2)}, W : WVals, rho : rhoVals, gamt : gamtVals,
          Pt : PtVals, guessMN : guessMNVals, area : areaVals]
    [] md = "calc" ->
         [gamma : {FInt(2)}, n_moles : {FOne}, Ts : TsVals, ht : calc_hVals,
          hs : calc_hVals, W : WVals, rho : rhoVals]

\* outputs at their declared values
FlowOutputs(md) ==
  CASE md = "MN" ->
         [Ps |-> Ps_val, V |-> V_val, Vsonic |-> Vsonic_val, area |-> area_val]
    [] md = "area" ->
         [Ps |-> Ps_val, V |-> V_val, Vsonic |-> Vsonic_val, MN |-> MN_val]
    [] md = "calc" ->
         [MN |-> calc_val, V |-> calc_val, Vsonic |-> calc_val,
          area |-> calc_val]

\* a ChemEq instance after setup, left alone
ChemIdle ==
  /\ mode = "T" /\ b0 = <<8>> /\ P = 2 /\ target = 0
  /\ n = n_init
  /\ pi = [e \in Elements |-> 1]
  /\ n_moles = 3
  /\ T = T_DEFAULT
  /\ resids = ZeroResids
  /\ remove_trace_species = FALSE
  /\ trace = NoTrace
  /\ weights = NoWeights
  /\ H0_T = None /\ S0_T = None /\ sum_n_H0_T = None
  /\ jac = NoJac
  /\ raised = "none"
  /\ pc = "idle" /\ iter_count = 0 /\ ls_count = 0 /\ norm0 = 0
  /\ status = "none" /\ entry = NoEntry
  /\ evals = [count |-> 0, masked |-> FALSE, prev_small |-> FALSE, small |-> FALSE]
  /\ start = NoStart

\* A static-flow component after setup, in a process whose numpy error mode
\* is the default or was left at 'raise' by an evaluation that failed.
InitPs ==
  /\ ChemIdle
  /\ np_err \in {"warn", "raise"}
  /\ ps_mode \in {"MN", "area", "calc"}
  /\ pathname \in (IF ps_mode = "area" THEN BOOLEAN ELSE {FALSE})
  /\ inputs \in FlowInputs(ps_mode)
  /\ outputs = FlowOutputs(ps_mode)
  /\ ps_resids = ZeroFlowResids(ps_mode)
  /\ ps_guess_cache = NO_GUESS
  /\ ps_jac = DeclaredPartials(ps_mode)
  /\ ps_pc = "setup"
  /\ ps_raised = "none"
  /\ BleedSetup
  /\ ThreadSetup

NextPs ==
  \/ PsResid_guess_nonlinear
  \/ PsResid_solve_nonlinear
  \/ PsResid_apply_nonlinear
  \/ bounded_update
  \/ PsCalc_compute

SpecPs == InitPs /\ [][NextPs]_vars

----------------------------------------------------------------------------
(* Repeated calls of guess_nonlinear and linearize on one PsResid instance *)
(* whose inputs the caller changes between the calls.                      *)

FMul3(a, b, c) == FMul(FMul(a, b), c)
FMul4(a, b, c, d) == FMul(FMul3(a, b, c), d)

\* the factor of the pressure in the second equation of the area-mode guess
PS_SCALE == 1

\* the inputs for which no operation of linearize signals an error
LinearizeDomain(md, i) ==
  /\ i.ht # FZero /\ IsFinite(i.ht)
  /\ FLess(FZero, VsonicArg(i))
  /\ FLess(FZero, i.rho)
  /\ md = "area" => FLess(FZero, i.area)

\* the partials of MN mode that linearize writes on every call
partials_MN(i, J) ==
  LET R == FInt(R_UNIVERSAL_SI)
      MN_squared_q2 == FDiv(FMul(i.MN, i.MN), FInt(2))
      RT_q_MW == FMul3(R, i.Ts, i.n_moles)
      ht_calc == FAdd(i.hs, FMul3(MN_squared_q2, i.gamma, RT_q_MW))
      part == FMul(<<1, 2>>, FDiv(FOne, FSqrt(VsonicArg(i))))
  IN [J EXCEPT
        !.Ps_ht = FDiv(FNeg(ht_calc), FMul(i.ht, i.ht)),
        !.Ps_hs = FDiv(FOne, i.ht),
        !.Vsonic_gamma = FMul4(part, R, i.n_moles, i.Ts),
        !.Vsonic_n_moles = FMul4(part, i.gamma, R, i.Ts),
        !.Vsonic_Ts = FMul4(part, i.gamma, R, i.n_moles),
        !.Vsonic_Vsonic = FInt(-1),
        !.area_area = FInt(-1),
        !.Ps_MN = FDiv(FMul3(i.MN, i.gamma, RT_q_MW), i.ht),
        !.Ps_n_moles = FDiv(FMul4(R, i.Ts, MN_squared_q2, i.gamma), i.ht),
        !.Ps_gamma = FDiv(FMul(RT_q_MW, MN_squared_q2), i.ht),
        !.Ps_Ts = FDiv(FMul4(MN_squared_q2, i.gamma, R, i.n_moles), i.ht)]

\* the partials of the area and V residuals, written only for MN >= 1e-16;
\* J holds the partials of Vsonic of this call
partials_MN_flow(i, Vsonic, J) ==
  LET R == FInt(R_UNIVERSAL_SI)
      part == FMul3(FDiv(FNeg(i.W), FMul3(i.rho, FMul(Vsonic, Vsonic), i.MN)),
                    FMul(<<1, 2>>, FDiv(FOne, FSqrt(VsonicArg(i)))), R)
  IN [J EXCEPT
        !.area_W = FDiv(FOne, FMul3(i.rho, Vsonic, i.MN)),
        !.area_rho = FDiv(FNeg(i.W), FMul3(Vsonic, i.MN, FMul(i.rho, i.rho))),
        !.area_gamma = FMul3(part, i.n_moles, i.Ts),
        !.area_n_moles = FMul3(part, i.gamma, i.Ts),
        !.area_Ts = FMul3(part, i.gamma, i.n_moles),
        !.area_MN = FDiv(FDiv(FDiv(FNeg(i.W), i.rho), Vsonic),
                         FMul(i.MN, i.MN)),
        !.V_MN = Vsonic,
        !.V_Ts = FMul(i.MN, J.Vsonic_Ts),
        !.V_n_moles = FMul(i.MN, J.Vsonic_n_moles),
        !.V_gamma = FMul(i.MN, J.Vsonic_gamma)]

\* the MN branch of linearize: there is no else to MN >= 1e-16, the entries
\* of J that the branch would write keep what they held
linearize_MN(i, Vsonic, J) ==
  LET K == partials_MN(i, J)
  IN IF FGeq(i.MN, MN_MIN) THEN partials_MN_flow(i, Vsonic, K) ELSE K

\* the area branch of linearize; MN is the recomputed Mach number and
\* outs_MN the Mach number state
linearize_area(i, outs_MN, MN, Vsonic, J) ==
  LET R == FInt(R_UNIVERSAL_SI)
      MN_squared_q2 == FDiv(FMul(outs_MN, outs_MN), FInt(2))
      RT_q_MW == FMul3(R, i.Ts, i.n_moles)
      ht_calc == FAdd(i.hs, FMul3(MN_squared_q2, i.gamma, RT_q_MW))
      part == FMul(<<1, 2>>, FDiv(FOne, FSqrt(VsonicArg(i))))
      dVs_dgamma == FMul4(part, R, i.n_moles, i.Ts)
      dresid_dMN == FMul3(MN, i.gamma, RT_q_MW)
      dMN_dA == FNeg(FDiv(FDiv(FDiv(i.W, i.rho), Vsonic),
                          FMul(i.area, i.area)))
      dMN_dVs == FDiv(FNeg(i.W), FMul3(i.rho, i.area, FMul(Vsonic, Vsonic)))
      dVs_dTs == FDiv(FMul4(<<1, 2>>, i.gamma, R, i.n_moles), Vsonic)
      dVs_dnmoles == FDiv(FMul4(<<1, 2>>, i.gamma, R, i.Ts), Vsonic)
      dMN_dW == FDiv(FDiv(FDiv(FOne, i.rho), Vsonic), i.area)
      dMN_dgamma == FMul(dMN_dVs, dVs_dgamma)
      dMN_drho == FDiv(FNeg(i.W), FMul3(i.area, Vsonic, FMul(i.rho, i.rho)))
  IN [J EXCEPT
        !.Ps_ht = FDiv(FNeg(ht_calc), FMul(i.ht, i.ht)),
        !.Ps_hs = FDiv(FOne, i.ht),
        !.Vsonic_gamma = dVs_dgamma,
        !.Vsonic_n_moles = FMul4(part, i.gamma, R, i.Ts),
        !.Vsonic_Ts = FMul4(part, i.gamma, R, i.n_moles),
        !.Vsonic_Vsonic = FInt(-1),
        !.MN_MN = FInt(-1),
        !.Ps_area = FDiv(FMul(dMN_dA, dresid_dMN), i.ht),
        !.V_area = FMul(dMN_dA, Vsonic),
        !.MN_area = dMN_dA,
        !.Ps_Ts = FDiv(FMul(i.gamma,
                            FAdd(FMul4(MN, dMN_dVs, dVs_dTs, RT_q_MW),
                                 FMul3(MN_squared_q2, R, i.n_moles))), i.ht),
        !.V_Ts = FNeg(FAdd(FMul3(dMN_dVs, dVs_dTs, Vsonic),
                           FMul(MN, dVs_dTs))),
        !.MN_Ts = FMul(dMN_dVs, dVs_dTs),
        !.Ps_n_moles = FDiv(FMul(FNeg(i.gamma),
                                 FAdd(FMul4(MN, RT_q_MW, dMN_dVs, dVs_dnmoles),
                                      FMul3(MN_squared_q2, R, i.Ts))), i.ht),
        !.V_n_moles = FAdd(FMul3(dMN_dVs, dVs_dnmoles, Vsonic),
                           FMul(dVs_dnmoles, MN)),
        !.MN_n_moles = FMul(dMN_dVs, dVs_dnmoles),
        !.Ps_W = FDiv(FMul(dMN_dW, dresid_dMN), i.ht),
        !.V_W = FMul(dMN_dW, Vsonic),
        !.MN_W = dMN_dW,
        !.MN_gamma = dMN_dgamma,
        !.Ps_gamma = FMul(FDiv(RT_q_MW, i.ht),
                          FAdd(MN_squared_q2, FMul3(i.gamma, MN, dMN_dgamma))),
        !.V_gamma = FAdd(FMul(dMN_dgamma, Vsonic), FMul(dVs_dgamma, MN)),
        !.Ps_rho = FDiv(FMul(FMul4(MN, i.gamma, R, i.n_moles),
                             FMul(i.Ts, dMN_drho)), i.ht),
        !.V_rho = FMul(dMN_drho, Vsonic),
        !.MN_rho = dMN_drho]

\* PsResid.linearize, for inputs on which none of its operations signals a
\* floating-point error
PsResid_linearize ==
  /\ ps_mode \in {"MN", "area"}
  /\ LinearizeDomain(ps_mode, inputs)
  /\ \E r \in {compute_outputs(ps_mode, inputs, np_err)} :
       /\ np_err' = r.np_err
       /\ ps_jac' = IF ps_mode = "MN"
                    THEN linearize_MN(inputs, r.Vsonic, ps_jac)
                    ELSE linearize_area(inputs, outputs.MN, r.MN, r.Vsonic,
                                        ps_jac)
  /\ ps_raised' = "none"
  /\ ps_pc' = "linearized"
  /\ UNCHANGED <<ps_mode, pathname, inputs, outputs, ps_resids,
                 ps_guess_cache, chemV, bleedV, threadV>>

\* values the caller sets between two calls: valid thermodynamic states, the
\* area at its declared default (infinite) or finite
GuessInputs(md) ==
  IF md = "MN"
  THEN [Ts : {FOne, FInt(4)}, ht : htVals, hs : {FZero}, n_moles : {FOne},
        gamma : {FInt(2)}, W : WVals, rho : {FOne}, gamt : gamtVals,
        Pt : {FOne, FInt(16)}, MN : guessMNVals]
  ELSE [Ts : {FOne, FInt(4)}, ht : htVals, hs : {FZero}, n_moles : {FOne},
        gamma : {FInt(2)}, W : WVals, rho : {FOne}, gamt : gamtVals,
        Pt : {FOne, FInt(16)}, guessMN : guessMNVals,
        area : {FInf, FOne, FInt(2)}]

\* the caller changes inputs of the component between two calls
set_inputs ==
  /\ ps_mode \in {"MN", "area"}
  /\ inputs' \in GuessInputs(ps_mode)
  /\ inputs' # inputs
  /\ ps_pc' = "set"
  /\ ps_raised' = "none"
  /\ UNCHANGED <<ps_mode, pathname, outputs, ps_resids, ps_guess_cache,
                 np_err, ps_jac, chemV, bleedV, threadV>>

InitGuess ==
  /\ ChemIdle
  /\ np_err = "warn"
  /\ ps_mode \in {"MN", "area"}
  /\ pathname \in (IF ps_mode = "area" THEN BOOLEAN ELSE {FALSE})
  /\ inputs \in GuessInputs(ps_mode)
  /\ outputs = FlowOutputs(ps_mode)
  /\ ps_resids = ZeroFlowResids(ps_mode)
  /\ ps_guess_cache = NO_GUESS
  /\ ps_jac = DeclaredPartials(ps_mode)
  /\ ps_pc = "setup"
  /\ ps_raised = "none"
  /\ BleedSetup
  /\ ThreadSetup

NextGuess == PsResid_guess_nonlinear \/ set_inputs \/ PsResid_linearize

SpecGuess == InitGuess /\ [][NextGuess]_vars

----------------------------------------------------------------------------
(* Two instances, one per thread: thread 1 calls the methods of a ChemEq   *)
(* instance, thread 2 those of a PsResid instance, and the interpreter      *)
(* switches between the threads from one call to the next.  The instances   *)
(* share no attribute; np.seterr, which both call, sets the error mode of   *)
(* the calling thread.                                                      *)

\* variant: one error mode for the whole process
resumed_err_shared(own, running) == running

\* the error mode that a thread finds when it runs again: the one it left,
\* whatever the thread that ran in between (and leaves in mode running) set
resumed_err(own, running) == own

\* the interpreter switches to the other thread
thread_switch ==
  /\ thread' = 3 - thread
  /\ np_err' = resumed_err(np_err_parked, np_err)
  /\ np_err_parked' = np_err
  /\ UNCHANGED <<inputsV, outputsV, resids, instV, jac, raised, driverV,
                 entry, evals, start, flowV, bleedV>>

\* a call of thread 1 on its ChemEq instance
ChemThread == thread = 1 /\ (CallGuess \/ CallApply \/ CallLinearize)

\* a call of thread 2 on its PsResid instance
FlowThread ==
  /\ thread = 2
  /\ \/ PsResid_guess_nonlinear
     \/ PsResid_solve_nonlinear
     \/ PsResid_apply_nonlinear

\* Both instances after setup, both threads in numpy's default error mode.
\* The ChemEq instance is at a valid composition or at one with
\* concentrations that are not positive, the PsResid instance at a valid or
\* a negative static temperature.
InitThreads ==
  /\ mode = "T" /\ b0 \in B0Vals /\ P = 1 /\ target = 0
  /\ n \in {[j \in Species |-> v] : v \in {-1, n_lower}}
  /\ pi = [e \in Elements |-> 1]
  /\ n_moles = 3
  /\ T = T_DEFAULT
  /\ resids = ZeroResids
  /\ remove_trace_species = FALSE
  /\ trace = NoTrace
  /\ weights = NoWeights
  /\ H0_T = None /\ S0_T = None /\ sum_n_H0_T = None
  /\ jac = NoJac
  /\ raised = "none"
  /\ pc = "ready" /\ iter_count = 0 /\ ls_count = 0 /\ norm0 = 0
  /\ status = "none" /\ entry = NoEntry
  /\ evals = [count |-> 0, masked |-> FALSE, prev_small |-> FALSE, small |-> FALSE]
  /\ start = NoStart
  /\ ps_mode \in {"MN", "area"}
  /\ pathname = FALSE
  /\ inputs \in {i \in FlowInputs(ps_mode) :
                   /\ i.Ts \in {FInt(-1), FOne} /\ i.W = FInt(2)
                   /\ i.rho = FOne /\ i.hs = FZero /\ i.Pt = FOne
                   /\ ps_mode = "MN" => i.MN = FOne
                   /\ ps_mode = "area" => i.guessMN = FOne /\ i.area = FOne}
  /\ outputs = FlowOutputs(ps_mode)
  /\ ps_resids = ZeroFlowResids(ps_mode)
  /\ ps_guess_cache = NO_GUESS
  /\ ps_jac = DeclaredPartials(ps_mode)
  /\ ps_pc = "setup"
  /\ ps_raised = "none"
  /\ BleedSetup
  /\ thread \in {1, 2}
  /\ np_err = "warn"
  /\ np_err_parked = "warn"

NextThreads == thread_switch \/ ChemThread \/ FlowThread

SpecThreads == InitThreads /\ [][NextThreads]_vars

----------------------------------------------------------------------------
(* BleedCalcs (src/pycycle/elements/bleed_out.py): the mass flows of a     *)
(* bleed element.  Flows and fractions are exact rationals.                *)

BleedNameLists == {<<>>, <<"cool1">>, <<"cool1", "cool2">>}
W_inVals == {FZero, FInt(3), FInt(30)}
frac_WVals == {FZero, <<1, 10>>, <<1, 2>>, FOne}

NamesOf(names) == {names[k] : k \in 1..Len(names)}

RECURSIVE bleed_loop_keep(_, _, _)
\* variant: the bleed flows are computed, W_out is not reduced by them
bleed_loop_keep(names, i, out) ==
  IF names = <<>> THEN out
  ELSE LET BN == Head(names)
           w == FMul(i.W_in, i.frac_W[BN])
       IN bleed_loop_keep(Tail(names), i,
                          [W_out |-> out.W_out,
                           stat_W |-> [out.stat_W EXCEPT ![BN] = w]])

RECURSIVE bleed_loop(_, _, _)
\* the loop of compute over the bleed names still to be visited: each bleed
\* flow is W_in * frac_W and is subtracted from W_out
bleed_loop(names, i, out) ==
  IF names = <<>> THEN out
  ELSE LET BN == Head(names)
           w == FMul(i.W_in, i.frac_W[BN])
       IN bleed_loop(Tail(names), i,
                     [W_out |-> FSub(out.W_out, w),
                      stat_W |-> [out.stat_W EXCEPT ![BN] = w]])

\* BleedCalcs.compute
BleedCalcs_compute ==
  /\ bleed_pc = "setup"
  /\ bleed_outputs' =
       bleed_loop(bleed_names, bleed_inputs,
                  [bleed_outputs EXCEPT !.W_out = bleed_inputs.W_in])
  /\ bleed_pc' = "computed"
  /\ UNCHANGED <<bleed_names, bleed_inputs, chemV, np_err, flowV, threadV>>

\* a BleedCalcs component after setup, with the inputs a caller has set
InitBleed ==
  /\ ChemIdle
  /\ np_err = "warn"
  /\ FlowSetup
  /\ bleed_names \in BleedNameLists
  /\ bleed_inputs \in [W_in : W_inVals,
                       frac_W : [NamesOf(bleed_names) -> frac_WVals]]
  /\ bleed_outputs = [W_out |-> FOne,
                      stat_W |-> [BN \in NamesOf(bleed_names) |-> FOne]]
  /\ bleed_pc = "setup"
  /\ ThreadSetup

NextBleed == BleedCalcs_compute

SpecBleed == InitBleed /\ [][NextBleed]_vars

----------------------------------------------------------------------------
(* Properties of Solve *)

\* sum_j aij[e][j] * n[j] - b0[e] at the point the outputs hold now
MassDefect(e) == SumOver([j \in Species |-> aij[e][j] * n[j]], Species) - b0[e]

\* C1: every solve the driver reports as converged returns concentrations
\* whose mass balance sum_j aij[e][j]*n[j] = b0[e] holds within the solver's
\* tolerance (atol, or rtol times the initial norm) for every element,
\* whether or not masking or damping acted in the last evaluations.
C1_MassConservation ==
  status = "converged" =>
    \A e \in Elements :
      \/ Sq(MassDefect(e)) <= Sq(atol)
      \/ Sq(MassDefect(e)) * NormScale <= norm0

\* a solve has converged after Newton iterations whose last evaluation masked
\* a trace species and damped a residual
C1_Witness ==
  /\ status = "converged" /\ iter_count > 0
  /\ evals.masked
  /\ \E j \in Species : j \in trace
  /\ \E j \in Species : weights[j] < WEIGHT_ONE

\* C2: in every state the guess resets and the bound-enforcing Newton and
\* line-search updates reach, every concentration is at least the lower bound
\* 1e-10.
C2_NonNegative == \A j \in Species : n[j] >= n_lower

\* the full Newton step of the last iteration was cut back at the bound of a
\* concentration: the step as solved kept n_moles equal to the sum of n
C2_Witness ==
  /\ pc = "check" /\ iter_count > 0 /\ ls_count = 0
  /\ \E j \in Species : n[j] = n_lower
  /\ n_moles < SumOver(n, Species)

\* C3 (as stated): a Solve that starts from a converged state ends with every
\* output where it was.
C3_Idempotent ==
  (start.conv /\ pc = "idle") =>
    (n = start.n /\ pi = start.pi /\ T = start.T /\ n_moles = start.n_moles)

\* C3 (amended): a Solve that starts from a state converged under atol, and
\* whose guess_nonlinear reads a nonzero residual norm of at most 1e-2 with no
\* negative concentration, performs no Newton iteration and leaves every
\* output exactly where it was.
C3_WarmResolve ==
  (/\ start.conv /\ start.atol /\ start.guessed
   /\ start.norm > 0 /\ start.norm <= Sq(RESET_TOL)
   /\ \A j \in Species : start.n[j] >= 0)
  => /\ n = start.n /\ pi = start.pi /\ T = start.T /\ n_moles = start.n_moles
     /\ iter_count = 0
     /\ status \in {"running", "converged"}

\* a second Solve from a converged state has returned without a reset
C3_Witness ==
  /\ start.conv /\ start.atol /\ start.guessed
  /\ start.norm > 0 /\ start.norm <= Sq(RESET_TOL)
  /\ pc = "idle" /\ status = "converged"

\* C6 (as stated): a Solve whose Newton loop spends its iterations without
\* meeting the tolerances ends in an error raised to the caller.
C6_NonConvergenceFatal == status = "failed" => raised # "none"

\* C7: every Solve call ends: each of its steps lowers a rank that is never
\* negative, and an iteration that is due always has an outcome; the Newton
\* loop runs at most maxiter iterations, each with at most ls_maxiter
\* backtracking steps, and no iteration starts once the cap is reached.
C7_Terminates ==
  /\ [](/\ iter_count <= maxiter
        /\ ls_count <= ls_maxiter
        /\ Rank >= 0
        /\ pc \in {"idle", "check"}
        /\ (pc = "check" /\ loop_continues(iter_count, resids, norm0)
             /\ ~linearize_fails)
             => \A J \in {linearize_now} :
                  ~singular(J) => directions(J, resids) # {})
  /\ [][pc # "idle" => Rank' < Rank]_vars
  /\ [][iter_count' > iter_count => iter_count < maxiter]_vars

\* the loop has used all its iterations without converging, the last one with
\* all its backtracking steps
C7_Witness ==
  /\ pc = "check" /\ iter_count = maxiter /\ ls_count = ls_maxiter
  /\ not_converged(resids, norm0)

\* C13 (as stated): in every converged state n_moles equals the sum of the
\* concentrations exactly.
C13_MoleSumExact == status = "converged" => n_moles = SumOver(n, Species)

\* C13 (amended): in every converged state n_moles equals the sum of the
\* concentrations within the solver's tolerance (atol, or rtol times the
\* initial norm).
C13_MoleSumTolerance ==
  status = "converged" =>
    \/ Sq(SumOver(n, Species) - n_moles) <= Sq(atol)
    \/ Sq(SumOver(n, Species) - n_moles) * NormScale <= norm0

\* a solve has converged with n_moles off the sum of the concentrations
C13_Witness ==
  /\ status = "converged" /\ iter_count > 0
  /\ n_moles # SumOver(n, Species)

----------------------------------------------------------------------------
(* Properties of the direct calls *)

\* the guards of guess_nonlinear on what the call found
GuardsHold ==
  \/ NormSq(resids) > Sq(RESET_TOL)
  \/ NormSq(resids) = 0
  \/ \E j \in Species : entry.n[j] < 0

\* C4: when the residual norm carried over is above 1e-2, or exactly 0, or a
\* concentration is negative, guess_nonlinear sets every n[j] to
\* 1/(10*num_prod) and, in modes h and S only, T to 1000; the values written
\* are the same on every reset, and in mode T the temperature is not touched.
C4_ResetPolicy ==
  pc = "guessed" =>
    /\ GuardsHold =>
         /\ \A j \in Species : n[j] = ONE_CONC \div (10 * num_prod)
         /\ mode # "T" => T = T_RESET
    /\ mode = "T" => T = entry.T

\* a reset caused by a negative concentration alone, in mode h
C4_Witness ==
  /\ pc = "guessed" /\ mode = "h"
  /\ NormSq(resids) > 0 /\ NormSq(resids) <= Sq(RESET_TOL)
  /\ \E j \in Species : entry.n[j] < 0
  /\ n = n_init /\ T = T_RESET /\ entry.T # T_RESET

\* C5: when no guard holds, guess_nonlinear leaves n, pi, n_moles and T as
\* they were; in no case does it modify pi or n_moles.
C5_WarmStart ==
  pc = "guessed" =>
    /\ pi = entry.pi /\ n_moles = entry.n_moles
    /\ ~GuardsHold => (n = entry.n /\ T = entry.T)

\* a call with no guard true has kept a guess that differs from the uniform
\* one
C5_Witness ==
  /\ pc = "guessed" /\ ~GuardsHold
  /\ n = entry.n /\ n # n_init /\ pi # [e \in Elements |-> 1]

\* the damped, unmasked Gibbs residual of species j at the point the outputs
\* hold now
Damped(j) ==
  MU_UNIT * (mu_of(n, T, Ln(P \div P_REF))[j]
     - SumOver([e \in Elements |-> pi[e] * aij[e][j]], Elements))
  * resid_weighting(n[j] * SumOver(n, Species))

\* the last call was an evaluation that returned
Applied == pc = "applied" /\ raised = "none"

\* C8: the switch is false at configuration; an evaluation masks exactly when
\* the norm of resids_n at the end of the evaluation before it was below
\* 1e-4, and then zeroes resids_n[j] for every n[j] <=
\* MIN_VALID_CONCENTRATION + 1e-20 and nothing else; at the end of every
\* evaluation the switch is true exactly when the norm of that evaluation's
\* resids_n is below 1e-4.
C8_TraceOrdering ==
  /\ evals.count = 0 => ~remove_trace_species
  /\ evals.count = 1 => ~evals.masked
  /\ evals.count >= 2 => (evals.masked <=> evals.prev_small)
  /\ evals.count >= 1 =>
       (remove_trace_species <=> NormSq_n(resids) < Sq(TRACE_TOL))
  /\ Applied =>
       \A j \in Species :
         resids.n[j] =
           IF evals.masked /\ n[j] <= MIN_VALID_CONCENTRATION + TRACE_EPS
           THEN 0 ELSE Damped(j)

\* an evaluation entered with the switch set has zeroed the nonzero residual
\* of a trace species next to a species above the threshold
C8_Witness ==
  /\ Applied /\ evals.count >= 2 /\ evals.masked
  /\ \E j \in Species :
       n[j] <= MIN_VALID_CONCENTRATION + TRACE_EPS /\ Damped(j) # 0
  /\ \E j \in Species : n[j] > MIN_VALID_CONCENTRATION + TRACE_EPS

\* the switch an evaluation at the current point leaves when entered with the
\* switch at flag
FlagLeft(flag) ==
  apply_result(mode, b0, P, target, T, n, pi, n_moles, flag).flag

\* C9 (as stated): the switch an evaluation leaves does not depend on the
\* switch it was entered with.
C9_HysteresisFree ==
  Applied =>
    remove_trace_species = FlagLeft(~evals.masked)

\* C9 (amended): the switch an evaluation leaves is independent of the switch
\* it was entered with when no concentration is at or below
\* MIN_VALID_CONCENTRATION + 1e-20; otherwise entering with the switch set
\* can only turn the result from false to true.
C9_MaskedHysteresis ==
  Applied =>
    /\ (\A j \in Species : n[j] > MIN_VALID_CONCENTRATION + TRACE_EPS)
         => remove_trace_species = FlagLeft(~evals.masked)
    /\ FlagLeft(FALSE) => FlagLeft(TRUE)

\* an evaluation entered with the switch set at a point without trace species
C9_Witness ==
  /\ Applied /\ evals.masked
  /\ \A j \in Species : n[j] > MIN_VALID_CONCENTRATION + TRACE_EPS

\* linearize has run with trace removal enabled
Linearized == pc = "linearized" /\ raised = "none" /\ remove_trace_species

\* row j of the blocks n-n, n-pi, n-T and n-P is zero, column j of n-n is
\* zero, and the diagonal entry (j, j) is 1
RowMasked(j) ==
  /\ \A k \in Species \ {j} : IsZero(jac.n_n[j][k]) /\ IsZero(jac.n_n[k][j])
  /\ IsOne(jac.n_n[j][j])
  /\ \A e \in Elements : IsZero(jac.n_pi[j][e])
  /\ IsZero(jac.n_T[j])
  /\ IsZero(jac.n_P[j])

\* column j of the blocks pi-n and (modes h, S) T-n is zero
ColumnMasked(j) ==
  /\ \A e \in Elements : IsZero(jac.pi_n[e][j])
  /\ mode # "T" => IsZero(jac.T_n[j])

\* C10: after linearize with trace removal enabled, row j and column j of the
\* Jacobian are zero in the blocks n-n, n-pi, n-T, n-P, pi-n and (modes h, S)
\* T-n, with 1 on the diagonal, for every trace species j.
C10_RowAndColumn ==
  Linearized => \A j \in trace : RowMasked(j) /\ ColumnMasked(j)

\* linearize has masked the rows of a trace species
C10_Witness == Linearized /\ \E j \in trace : RowMasked(j)

\* C11: when ln(n_j) or ln(n_moles) raises a floating-point error in the
\* chemical potential, apply_nonlinear does not propagate it: it completes
\* the evaluation with the floor value and returns.
C11_LogGuard ==
  (/\ pc = "applied" /\ ThermoOK(T)
   /\ \/ \E j \in Species : ~LogOK(n[j])
      \/ ~LogOK(SumOver(n, Species)))
  => /\ raised = "none"
     /\ weights # NoWeights
     /\ np_err = "warn"

\* an evaluation at a point with a concentration of zero has ended in the
\* error raised inside the handler, with numpy left in its 'raise' mode
C11_Witness ==
  /\ pc = "applied" /\ raised = "FloatingPointError" /\ np_err = "raise"
  /\ \E j \in Species : n[j] = 0

\* C12: when thermo.H0(T) or thermo.S0(T) fails, apply_nonlinear raises an
\* AnalysisError to the caller, writes no residual and leaves the
\* trace-removal switch as it was.
C12_ThermoFatal ==
  [][(pc' = "applied" /\ ~ThermoOK(T))
       => /\ raised' = "AnalysisError"
          /\ resids' = resids
          /\ remove_trace_species' = remove_trace_species]_vars

\* an evaluation at a temperature the fits do not cover has ended in an
\* exception
C12_Witness == pc = "applied" /\ ~ThermoOK(T) /\ raised # "none"

----------------------------------------------------------------------------
(* Properties of the static-flow components *)

\* equality as IEEE compares: a NaN equals nothing
FEq(a, b) == ~IsNaN(a) /\ ~IsNaN(b) /\ a = b

FlowSolved == ps_mode \in {"MN", "area"} /\ ps_pc = "solved" /\ ps_raised = "none"

\* C14: static-flow consistency.  After solve_nonlinear, Vsonic^2 equals
\* gamma*R*n_moles*Ts in both modes; in MN mode with MN >= 1e-16 the area
\* satisfies area*rho*Vsonic*MN = W and V = MN*Vsonic; in area mode with a
\* finite area MN = W/(rho*Vsonic*area) and V = MN*Vsonic.
C14_FlowConsistency ==
  FlowSolved =>
    /\ FEq(FMul(outputs.Vsonic, outputs.Vsonic), VsonicArg(inputs))
    /\ (ps_mode = "MN" /\ FGeq(inputs.MN, MN_MIN)) =>
         /\ FEq(FMul(FMul(FMul(outputs.area, inputs.rho), outputs.Vsonic),
                     inputs.MN), inputs.W)
         /\ FEq(outputs.V, FMul(inputs.MN, outputs.Vsonic))
    /\ (ps_mode = "area" /\ IsFinite(inputs.area)) =>
         /\ FEq(outputs.MN,
                FDiv(inputs.W, FMul(FMul(inputs.rho, outputs.Vsonic),
                                    inputs.area)))
         /\ FEq(outputs.V, FMul(outputs.MN, outputs.Vsonic))

\* a solve in area mode that wrote the Mach number 5 for a zero area
C14_Witness ==
  /\ FlowSolved /\ ps_mode = "area"
  /\ inputs.area = FZero /\ FLess(FZero, inputs.W)
  /\ FLess(FZero, inputs.rho) /\ FLess(FZero, inputs.Ts)
  /\ outputs.MN = MN_DEFAULT

\* valid thermodynamic inputs: a positive radicand of Vsonic
ValidThermo(i) == FLess(FZero, VsonicArg(i))

C16_DegenerateMachGuard ==
  (ps_mode = "MN" /\ ps_pc = "applied" /\ ps_raised = "none") =>
    \A r \in {compute_outputs_MN(inputs, "warn")} :
      /\ FLess(inputs.MN, MN_MIN) <=> (r.area = FInf /\ ~r.divided)
      /\ FLess(inputs.MN, MN_MIN) => ps_resids.area = FZero
      /\ FGeq(inputs.MN, MN_MIN) => ps_resids.area = FSub(r.area, outputs.area)

\* an apply with MN above the guard whose division gave an infinite area:
\* the residual is 0, not area_calc - area_state
C16_Witness ==
  /\ ps_mode = "MN" /\ ps_pc = "applied" /\ ps_raised = "none"
  /\ FGeq(inputs.MN, MN_MIN)
  /\ compute_outputs_MN(inputs, "warn").area = FInf
  /\ ps_resids.area = FZero

\* whether evaluating Vsonic, or MN in area mode, signals a floating-point
\* error for inputs i
domain_error(md, i) ==
  \/ sqrt_invalid(VsonicArg(i))
  \/ md = "area" /\ i.area # FInf /\ MN_error(i)

\* C17: floating-point domain errors are surfaced.  Whenever the evaluation
\* of Vsonic or MN signals a floating-point error, solve_nonlinear ends in
\* an AnalysisError; no output is written from a substituted default.
C17_ErrorsSurfaced ==
  (ps_mode \in {"MN", "area"} /\ ps_pc = "solved"
     /\ domain_error(ps_mode, inputs))
  => ps_raised = "AnalysisError"

\* a solve that hit a domain error and returned normally
C17_Witness ==
  /\ FlowSolved /\ domain_error(ps_mode, inputs)
  /\ \/ ps_mode = "area" /\ outputs.MN = MN_DEFAULT
     \/ IsNaN(outputs.Vsonic)

\* degenerate physics: zero density, or zero velocity
Degenerate(md, i) ==
  \/ i.rho = FZero
  \/ md = "MN" /\ i.MN = FZero
  \/ md = "calc" /\ i.ht = i.hs

\* the value v of output or residual f comes from an explicit branch
ExplicitBranch(f, v) ==
  ps_mode = "MN" /\ f = "area" /\ v = FInf /\ FLess(inputs.MN, MN_MIN)

\* C18: degenerate physics never returns an uncommunicated NaN or infinity.
\* For rho = 0 or zero velocity (ht = hs, or MN = 0) and a valid speed of
\* sound, a call that returns normally leaves every output and residual
\* finite, except for the area set to infinity by the explicit branch.
C18_NoSilentNaN ==
  (ps_pc \in {"solved", "applied", "computed"} /\ ps_raised = "none"
     /\ Degenerate(ps_mode, inputs) /\ ValidThermo(inputs))
  => /\ \A f \in DOMAIN outputs :
          IsFinite(outputs[f]) \/ ExplicitBranch(f, outputs[f])
     /\ ps_mode # "calc" =>
          \A f \in DOMAIN ps_resids : IsFinite(ps_resids[f])

\* PsCalc.compute with ht = hs returned an area that is infinite or NaN
C18_Witness ==
  /\ ps_mode = "calc" /\ ps_pc = "computed" /\ ps_raised = "none"
  /\ inputs.ht = inputs.hs /\ ValidThermo(inputs)
  /\ ~IsFinite(outputs.area)

\* C19: static-pressure invariant.  After any sequence of guess_nonlinear,
\* solve_nonlinear and bounded Newton updates, in either mode, the Ps state
\* lies strictly inside its bracket: 1e-4 < Ps < 5e4.
C19_PsBracket ==
  ps_mode \in {"MN", "area"}
  => (FLess(Ps_lower, outputs.Ps) /\ FLess(outputs.Ps, Ps_upper))

\* a guess that wrote a static pressure above the upper bound
C19_Witness ==
  /\ ps_mode \in {"MN", "area"} /\ ps_pc = "guessed"
  /\ outputs.Ps = ps_guess_cache
  /\ FLess(Ps_upper, outputs.Ps)

\* C20: area invariant.  In MN mode after any solve_nonlinear that returns
\* normally the area output is strictly positive: finite and positive, or
\* +infinity, never 0 or negative.
C20_AreaPositive ==
  (ps_mode = "MN" /\ ps_pc = "solved" /\ ps_raised = "none")
  => FLess(FZero, outputs.area)

\* a solve with W = 0 that wrote an area below its declared lower bound
C20_Witness ==
  /\ ps_mode = "MN" /\ ps_pc = "solved" /\ ps_raised = "none"
  /\ inputs.W = FZero
  /\ FLess(outputs.area, area_lower)

----------------------------------------------------------------------------
(* Further properties of ChemEq *)

\* sum_j n_j * H0_j(T) at the current outputs
SumNH0 == SumOver([j \in Species |-> n[j] * H0(T)[j]], Species)

\* C24 as stated: in mode h the temperature residual is
\* (h - R * sum_j n_j*H0_j(T)) / h, which is zero exactly when
\* h = R * sum_j n_j*H0_j(T).
C24_EnthalpyClosure ==
  (Applied /\ mode = "h") =>
    /\ resids.T = fdiv((target - R_UNIVERSAL_ENG * SumNH0) * ONE_RES, target)
    /\ resids.T = 0 <=> target = R_UNIVERSAL_ENG * SumNH0

\* C24, amended: in mode h the temperature residual is
\* (h - R * T * sum_j n_j*H0_j(T)) / h with the dimensionless H0 of the
\* thermodynamic data, which is zero exactly when
\* h = R * T * sum_j n_j*H0_j(T).
C24_EnthalpyClosureT ==
  (Applied /\ mode = "h") =>
    /\ resids.T = fdiv((target - R_UNIVERSAL_ENG * T * SumNH0) * ONE_RES, target)
    /\ resids.T = 0 <=> target = R_UNIVERSAL_ENG * T * SumNH0

\* an evaluation in mode h at a point that closes the enthalpy balance, and
\* one that does not
C24_Witness ==
  /\ Applied /\ mode = "h"
  /\ resids.T = 0 /\ target = R_UNIVERSAL_ENG * T * SumNH0

\* C26: the trace mask is defined and current when used.  When linearize
\* runs with the switch set, right after the evaluation that set it, it
\* ends normally and the mask it uses is the trace set of the n of that
\* evaluation.
C26_TraceMaskCurrent ==
  [][(pc = "applied" /\ raised = "none" /\ remove_trace_species
        /\ pc' = "linearized")
     => (raised' = "none" /\ trace # NoTrace /\ trace = trace_of(n))]_vars

\* linearize ran with the switch set and no mask computed yet
C26_Witness ==
  /\ pc = "linearized" /\ remove_trace_species /\ trace = NoTrace
  /\ weights # NoWeights /\ raised = "AttributeError"

\* C29: the floating-point error mode is never left raising.  Every call of
\* apply_nonlinear, however it ends, leaves numpy's error mode at 'warn'.
C29_ErrorModeRestored == pc = "applied" => np_err = "warn"

\* an evaluation that ended in an exception with numpy left in 'raise' mode
C29_Witness ==
  /\ pc = "applied" /\ raised = "FloatingPointError" /\ ThermoOK(T)
  /\ np_err = "raise" /\ weights = NoWeights

----------------------------------------------------------------------------
(* Properties of BleedCalcs *)

RECURSIVE FSum(_, _)
\* the sum of f over the finite index set dom
FSum(f, dom) ==
  IF dom = {} THEN FZero
  ELSE LET k == CHOOSE x \in dom : TRUE IN FAdd(f[k], FSum(f, dom \ {k}))

\* C30: bleed mass balance.  After compute every bleed flow BN:stat:W is
\* W_in * BN:frac_W, W_out is W_in less the sum of the bleed flows, and
\* W_out plus all bleed flows is W_in.
C30_BleedMassBalance ==
  bleed_pc = "computed" =>
    \A total \in {FSum(bleed_outputs.stat_W, NamesOf(bleed_names))} :
      /\ \A BN \in NamesOf(bleed_names) :
           bleed_outputs.stat_W[BN]
             = FMul(bleed_inputs.W_in, bleed_inputs.frac_W[BN])
      /\ bleed_outputs.W_out = FSub(bleed_inputs.W_in, total)
      /\ FAdd(bleed_outputs.W_out, total) = bleed_inputs.W_in

\* a compute with two bleeds that both take flow
C30_Witness ==
  /\ bleed_pc = "computed" /\ Len(bleed_names) = 2
  /\ \A BN \in NamesOf(bleed_names) : FLess(FZero, bleed_outputs.stat_W[BN])
  /\ FLess(bleed_outputs.W_out, bleed_inputs.W_in)

----------------------------------------------------------------------------
(* Further properties of PsResid *)

\* C28: solve_nonlinear is consistent with apply_nonlinear.  An
\* apply_nonlinear that directly follows a solve_nonlinear on the same inputs
\* yields zero residuals for V, Vsonic and area (MN mode) or MN (area mode),
\* and solve_nonlinear leaves the Ps state as it was.
C28_SolveThenApply ==
  [][/\ (ps_pc' = "solved" /\ ps_mode \in {"MN", "area"})
          => outputs'.Ps = outputs.Ps
     /\ (/\ ps_mode \in {"MN", "area"}
         /\ ps_pc = "solved" /\ ps_raised = "none"
         /\ ps_pc' = "applied" /\ ps_raised' = "none")
          => /\ ps_resids'.V = FZero
             /\ ps_resids'.Vsonic = FZero
             /\ ps_mode = "MN" => ps_resids'.area = FZero
             /\ ps_mode = "area" => ps_resids'.MN = FZero]_vars

\* an apply_nonlinear on the NaN speed of sound that solve_nonlinear stored
C28_Witness ==
  /\ ps_mode = "MN" /\ ps_pc = "applied" /\ ps_raised = "none"
  /\ FLess(inputs.Ts, FZero)
  /\ IsNaN(outputs.Vsonic) /\ IsNaN(ps_resids.Vsonic)

\* the estimate that a guess_nonlinear call on the current inputs computes
\* from the isentropic relation
fresh_guess ==
  ps_isentropic(inputs.Pt, inputs.gamt,
                IF ps_mode = "MN" THEN inputs.MN ELSE inputs.guessMN)

\* C21: Ps guess cache policy, in both modes.  A guess_nonlinear call whose
\* fresh estimate is within the tolerance of the cached guess leaves Ps and
\* the cache unchanged; any other call sets Ps and the cache to the fresh
\* estimate.
C21_CachePolicy ==
  [][(ps_pc' = "guessed" /\ ps_raised' = "none")
       => IF guess_differs(fresh_guess)
          THEN outputs'.Ps = fresh_guess /\ ps_guess_cache' = fresh_guess
          ELSE UNCHANGED <<outputs, ps_guess_cache>>]_vars

\* an MN-mode call that kept a cached guess which differs from the fresh one
C21_Witness ==
  /\ ps_mode = "MN" /\ ps_pc = "guessed"
  /\ ps_guess_cache # NO_GUESS
  /\ guess_differs(fresh_guess)
  /\ outputs.Ps = ps_guess_cache

guess_MN_of(i, Ps) ==
  FDiv(FMul(i.W, FSqrt(FDiv(FMul(FInt(R_UNIVERSAL_SI), i.Ts), i.gamt))),
       FMul3(Ps, FInt(PS_SCALE), i.area))

\* a Ps that an area-mode guess_nonlinear call has seeded from the inputs
Seeded ==
  /\ ps_mode = "area" /\ ~pathname
  /\ ps_pc = "guessed" /\ ps_raised = "none"
  /\ outputs.Ps = ps_guess_cache

\* C25: area-mode initial guess.  The seeded Ps is the Ps component of the
\* simultaneous root of the two equations: it satisfies the isentropic
\* relation at the Mach number that the second equation gives for this Ps.
C25_CoupledRoot ==
  Seeded =>
    FEq(outputs.Ps,
        ps_isentropic(inputs.Pt, inputs.gamt, guess_MN_of(inputs, outputs.Ps)))

\* a seeded Ps that is the estimate at guess:MN although the flow gives
\* another Mach number
C25_Witness ==
  /\ Seeded
  /\ outputs.Ps = fresh_guess
  /\ FLess(FZero, inputs.W) /\ IsFinite(inputs.area)
  /\ ~FEq(guess_MN_of(inputs, outputs.Ps), inputs.guessMN)

\* the partials of the area and V residuals in MN mode
FlowPartials(J) ==
  <<J.area_W, J.area_rho, J.area_gamma, J.area_n_moles, J.area_Ts, J.area_MN,
    J.V_MN, J.V_n_moles, J.V_gamma, J.V_Ts>>

\* C27: no stale partials in MN mode.  The partials of the area and V
\* residuals that a linearize call reports are a function of that call's
\* inputs: the values computed from them for MN >= 1e-16, and the declared
\* values otherwise, never what an earlier call wrote.
C27_NoStalePartials ==
  (ps_mode = "MN" /\ ps_pc = "linearized" /\ ps_raised = "none") =>
    FlowPartials(ps_jac)
      = FlowPartials(
          IF FGeq(inputs.MN, MN_MIN)
          THEN partials_MN_flow(inputs, FSqrt(VsonicArg(inputs)),
                                partials_MN(inputs, DeclaredPartials("MN")))
          ELSE DeclaredPartials("MN"))

\* a linearize call below the Mach threshold after which J holds partials of
\* the area residual that an earlier call wrote
C27_Witness ==
  /\ ps_mode = "MN" /\ ps_pc = "linearized" /\ ps_raised = "none"
  /\ FLess(inputs.MN, MN_MIN)
  /\ ps_jac.area_W # FZero /\ ps_jac.V_MN # FZero
  /\ ps_jac.area_area = FInt(-1)

----------------------------------------------------------------------------
(* Two instances in two threads *)

====
